---- MODULE Spec2Model ----
(***************************************************************************)
(* Execution and context-management core of LiteRT-LM.                     *)
(*                                                                         *)
(* Several state machines are kept in this module.                         *)
(*                                                                         *)
(*   Spec       ResourceManager + LockedLlmExecutor                        *)
(*              (runtime/framework/resource_management/resource_manager.cc)*)
(*   SpecTasks  SessionAdvanced on top of the ExecutionManager             *)
(*              (runtime/core/session_advanced.cc)                         *)
(*   SpecScenario  the resource manager on the end-to-end scenario inputs  *)
(*   SpecFaults    the resource manager while executor calls may fail      *)
(*   SpecSession   the asynchronous session interface and its status codes *)
(*   SpecStream    GenerateContentStream and its chained decode            *)
(*   SpecSync      the synchronous wrappers and their timeout              *)
(*   SpecTokenizer SentencePieceTokenizer::TokenIdsToText                  *)
(*              (runtime/components/tool_use/parser_common.cc)             *)
(*   SpecRegistry  ResourceRegistry and ResourceScopedLock                 *)
(*   SpecConstruct the construction of the ExecutionManager                *)
(*   SpecIterator  the MessageIterator queue                               *)
(*   SpecAudio     the audio step of the context switch                    *)
(*   SpecLora      the LoRA id map under concurrent handler creation       *)
(*                                                                         *)
(* Optional values (std::unique_ptr / std::optional members) are written   *)
(* as sequences of length 0 (absent) or 1 (present).                       *)
(***************************************************************************)
EXTENDS Integers, Sequences, FiniteSets, TLC

\* ------------------------------------------------------------------ bounds
MaxLen == 2
MaxInput == 2

MaxTasks == 3

\* The longest processed-token sequence of the scenario runs.
ScenarioLen == 6

\* The longest id sequence fed to the tokenizer.
MaxIds == 4

\* Longest processed-token list while executor calls may fail.
FaultLen == 1

\* The largest thread count an executor advertises.
MaxThreads == 2

\* The number of messages pushed to a MessageIterator.
MaxPush == 4

\* The number of Encode calls on the audio executor.
MaxAudio == 2

\* The number of LoRA ids assigned.
MaxLora == 3

Vocab == {1, 2}
Threads == {"t1", "t2"}

\* Handler ids in creation order, and one SharedProcessedContext cell each.
Handlers == {1, 2}
SpcIds == Handlers

\* All token sequences of length at most n.
TokenSeqs(n) == UNION {[1..k -> Vocab] : k \in 0..n}

\* ExecutorPrefillParams::GetCurrentStep(): -1 when the caller gave none.
PrefillSteps == (-1)..(MaxLen + 1)

Min2(a, b) == IF a < b THEN a ELSE b

VARIABLES
    numHandlers,        \* handlers 1..numHandlers have been created
    handler,            \* handler[h] = [spc, cfg, st]: ContextHandler members
    spcInner,           \* SharedProcessedContext::processed_context_ per cell
    ex,                 \* the LlmExecutor's resident context
    current_handler_,   \* ResourceManager::current_handler_ (0 = nullptr)
    executor_mutex_,    \* ResourceManager::executor_mutex_: "free" or a thread
    locked,             \* locked[t]: the LockedLlmExecutor thread t holds
    lastOp              \* the last operation and the executor calls it made

rmVars == <<numHandlers, handler, spcInner, ex, current_handler_,
            executor_mutex_, locked, lastOp>>

VARIABLES
    apply_prompt_template,  \* SessionConfig::GetApplyPromptTemplateInSession
    session_state_,         \* SessionAdvanced::session_state_ per session
    last_task_ids_,         \* SessionAdvanced::last_task_ids_ per session
    next_task_id_,          \* the last id GetNewTaskId returned
    task_lookup_,           \* ExecutionManager::task_lookup_
    execution_thread_pool_, \* FIFO of the single execution worker
    callback_thread_pool_,  \* FIFO of the single callback worker
    running                 \* the task the execution worker runs (0 = idle)

emVars == <<apply_prompt_template, session_state_, last_task_ids_,
            next_task_id_, task_lookup_, execution_thread_pool_,
            callback_thread_pool_, running>>

VARIABLES
    execution_manager_,     \* SessionAdvanced::execution_manager_ (weak_ptr):
                            \* "alive" while lock() yields the manager
    stream_callback,        \* per prefill task of GenerateContentStream: where
                            \* the caller's stream callback has gone
    returned,               \* what the last call of the session interface
                            \* returned
    waiting                 \* the synchronous wrapper the caller is blocked in

saVars == <<execution_manager_, stream_callback, returned, waiting>>


\* ------------------------------------------------------- ContextHandler
Live == 1..numHandlers

HasRuntimeConfig(h) == handler[h].cfg # <<>>
HasRuntimeState(h) == handler[h].st # <<>>
HasProcessedContext(s) == spcInner[s] # <<>>

\* The handlers attached to SharedProcessedContext s (its handlers_ set).
HandlersOf(s) == {h \in Live : handler[h].spc = s}

\* A cell no live handler references (a fresh std::make_shared).
FreshSpc(except) ==
    CHOOSE s \in SpcIds : \A h \in Live \ except : handler[h].spc # s

NoHandlerRec == [spc |-> 1, cfg |-> <<>>, st |-> <<>>]

RuntimeState(step, ran) == [current_step |-> step, ran_decode |-> ran]

\* ------------------------------------------------------------ LlmExecutor
\* The executor contract (spec section 6): a call is [fn, toks, step] and is
\* applied to the resident context e = [tokens, step, ran, cfg, ok].
Call(fn, toks, step) == [fn |-> fn, toks |-> toks, step |-> step]

StepInRange(e, s) == 0 <= s /\ s <= Len(e.tokens)

ExecSetCurrentStep(e, s) ==
    IF StepInRange(e, s) THEN [e EXCEPT !.step = s] ELSE [e EXCEPT !.ok = FALSE]

ExecPrefill(e, toks, pstep) ==
    LET s == IF pstep = -1 THEN e.step ELSE pstep
    IN  IF StepInRange(e, s)
        THEN [e EXCEPT !.tokens = SubSeq(e.tokens, 1, s) \o toks,
                       !.step = s + Len(toks)]
        ELSE [e EXCEPT !.ok = FALSE]

ExecDecode(e, tok) ==
    [e EXCEPT !.tokens = SubSeq(e.tokens, 1, e.step) \o <<tok>>,
              !.step = e.step + 1,
              !.ran = TRUE]

ExecCall(e, c) ==
    IF c.fn = "SetCurrentStep" THEN ExecSetCurrentStep(e, c.step)
    ELSE IF c.fn = "Prefill" THEN ExecPrefill(e, c.toks, c.step)
    ELSE ExecDecode(e, c.toks[1])

\* RETURN_IF_ERROR: the calls are made in order until one fails.
RECURSIVE ExecCalls(_, _)
ExecCalls(e, calls) ==
    IF calls = <<>> \/ ~e.ok THEN e
    ELSE ExecCalls(ExecCall(e, Head(calls)), Tail(calls))

\* ------------------------------------------------- resource_manager_utils
\* RemoveMatchingTokens: the number of leading input ids that equal the
\* processed tokens from position s on.
RemoveMatchingTokens(P, I, s) ==
    LET cand == {k \in 0..Min2(Len(P) - s, Len(I)) :
                     \A i \in 1..k : P[s + i] = I[i]}
    IN  CHOOSE k \in cand : \A j \in cand : j <= k

\* SharedProcessedContext::LongestHandlerTimeStep: the largest step among the
\* handlers attached to the cell; the loaded handler's step is the executor's.
StepOf(h) ==
    IF HasRuntimeState(h) THEN handler[h].st[1].current_step ELSE ex.step

LongestHandlerTimeStep(s) ==
    LET steps == {StepOf(h) : h \in HandlersOf(s)} \cup {0}
    IN  CHOOSE m \in steps : \A x \in steps : x <= m

\* ------------------------------------------------------ LockedLlmExecutor
\* Lines 322 and 443: the loaded handler is detached when it is not the
\* longest handler of its SharedProcessedContext.
NoSeparation(largest_time_step, current_step) == FALSE

NeedsSeparation(largest_time_step, current_step) ==
    largest_time_step # current_step

\* Lines 203-220: the step the prefill starts from.
EffectiveStep(tokenCount, exStep, ps) ==
    LET current_step == IF ps # -1 THEN ps ELSE exStep
    IN  IF current_step > tokenCount THEN tokenCount ELSE current_step

\* LockedLlmExecutor::Prefill with a current handler: the executor calls it
\* makes, and whether it separates the handler first.
PrefillKeepsMatched(P, exStep, I, ps, largest) ==
    LET tc == Len(P)
        s == EffectiveStep(tc, exStep, ps)
    IN  IF I = <<>> THEN [calls |-> <<>>, separate |-> FALSE]
        ELSE IF tc = s
        THEN [calls |-> <<Call("Prefill", I, ps)>>, separate |-> FALSE]
        ELSE [calls |-> <<Call("SetCurrentStep", <<>>, s),
                          Call("Prefill", I, s)>>,
              separate |-> NeedsSeparation(largest, s)]

PrefillPlan(P, exStep, I, ps, largest) ==
    LET tc == Len(P)
        s == EffectiveStep(tc, exStep, ps)
    IN  IF I = <<>> THEN [calls |-> <<>>, separate |-> FALSE]
        ELSE IF tc = s
        THEN [calls |-> <<Call("Prefill", I, ps)>>, separate |-> FALSE]
        ELSE
          LET k == RemoveMatchingTokens(P, I, s)
              s2 == IF s + k > tc THEN tc ELSE s + k
              I2 == SubSeq(I, k + 1, Len(I))
          IN  IF I2 = <<>>
              THEN [calls |-> <<Call("SetCurrentStep", <<>>, s2)>>,
                    separate |-> FALSE]
              ELSE IF tc = s2
              THEN [calls |-> <<Call("Prefill", I2, s2)>>, separate |-> FALSE]
              ELSE [calls |-> <<Call("SetCurrentStep", <<>>, s2),
                                Call("Prefill", I2, s2)>>,
                    separate |-> NeedsSeparation(largest, s2)]

\* LockedLlmExecutor::MaybeTruncateProcessedTokens followed by Decode.
DecodePlan(P, exStep, tok, largest) ==
    IF Len(P) = exStep
    THEN [calls |-> <<Call("Decode", <<tok>>, exStep)>>, separate |-> FALSE]
    ELSE [calls |-> <<Call("SetCurrentStep", <<>>, exStep),
                      Call("Decode", <<tok>>, exStep)>>,
          separate |-> NeedsSeparation(largest, exStep)]

\* Cells that no live handler references are destroyed (shared_ptr).
Gc(inner, hf) ==
    [s \in SpcIds |->
        IF \E h \in Live : hf[h].spc = s THEN inner[s] ELSE <<>>]

\* SaveProcessedContextAndSeparateLoadedHandler, lines 62-94.
SeparationRefused(h) ==
    HasRuntimeConfig(h) \/ HasRuntimeState(h)
        \/ HasProcessedContext(handler[h].spc)

SeparatedHandler(h) ==
    [handler EXCEPT ![h].spc = FreshSpc({h})]

SeparatedInner(h) ==
    LET saved == [spcInner EXCEPT ![handler[h].spc] = <<ex.tokens>>]
        fresh == [saved EXCEPT ![FreshSpc({h})] = <<>>]
    IN  Gc(fresh, SeparatedHandler(h))

\* lastOp: the operation that made the last step, the executor calls it
\* made in order, the token count tc the steps of those calls refer to, and
\* whether it detached the loaded handler (sep).
NoOp == [op |-> "none", calls |-> <<>>, tc |-> 0, sep |-> FALSE, ok |-> TRUE]

OpLog(op, calls, tc, sep, ok) ==
    [op |-> op, calls |-> calls, tc |-> tc, sep |-> sep, ok |-> ok]

\* An operation issued through the handle of thread t, bound to handler h.
\* When the separation is refused the operation returns before any call.
ThroughHandle(t, op, plan) ==
    LET h == locked[t][1]
        refused == plan.separate /\ SeparationRefused(h)
        calls == IF refused THEN <<>> ELSE plan.calls
        e2 == ExecCalls(ex, calls)
    IN  /\ ex' = [e2 EXCEPT !.ok = TRUE]
        /\ handler' = IF plan.separate /\ ~refused
                      THEN SeparatedHandler(h) ELSE handler
        /\ spcInner' = IF plan.separate /\ ~refused
                       THEN SeparatedInner(h) ELSE spcInner
        /\ lastOp' = OpLog(op, calls, Len(ex.tokens), plan.separate /\ ~refused,
                         e2.ok /\ ~refused)
        /\ UNCHANGED <<numHandlers, current_handler_, executor_mutex_, locked>>

Bound(t) == locked[t] # <<>> /\ locked[t][1] # 0

Prefill(t, I, ps) ==
    /\ Bound(t)
    /\ ThroughHandle(t, "Prefill",
         PrefillPlan(ex.tokens, ex.step, I, ps,
                     LongestHandlerTimeStep(handler[locked[t][1]].spc)))

Decode(t, tok) ==
    /\ Bound(t)
    /\ ThroughHandle(t, "Decode",
         DecodePlan(ex.tokens, ex.step, tok,
                    LongestHandlerTimeStep(handler[locked[t][1]].spc)))

\* ------------------------------------------------------- ResourceManager
ResetStep(step, token_count) == 0

\* Lines 717-729 and 770-782: the restored step is clamped into
\* [0, token_count].
ClampStep(step, token_count) ==
    LET upper == IF step > token_count THEN token_count ELSE step
    IN  IF upper < 0 THEN 0 ELSE upper

AlwaysFree == TRUE

\* MovableMutexLock lock(&executor_mutex_) can be taken.
MutexFree == executor_mutex_ = "free"

\* The RuntimeConfig built from the session config (lines 521-552); every
\* session asks for a configuration of its own, named by the handler id.
RuntimeConfigOf(h) == h

\* ContextHandler::Create over llm_executor_->CreateNewContext: a suspended
\* handler on a cell of its own that holds an empty ProcessedContext.
CreateContextHandler ==
    /\ numHandlers < Cardinality(Handlers)
    /\ MutexFree
    /\ LET h == numHandlers + 1
           s == FreshSpc({})
       IN  /\ numHandlers' = h
           /\ handler' = [handler EXCEPT ![h] =
                  [spc |-> s, cfg |-> <<RuntimeConfigOf(h)>>,
                   st |-> <<RuntimeState(0, FALSE)>>]]
           /\ spcInner' = [spcInner EXCEPT ![s] = << <<>> >>]
    /\ lastOp' = NoOp
    /\ UNCHANGED <<ex, current_handler_, executor_mutex_, locked>>

AnySource(src) == TRUE

\* CloneContextHandler, lines 567-620. A source without runtime config/state
\* is read from the executor under executor_mutex_, and only when it is the
\* current handler; otherwise the call fails and creates nothing.
CloneSourceOk(src) ==
    \/ HasRuntimeConfig(src) /\ HasRuntimeState(src)
    \/ MutexFree /\ current_handler_ = src

\* A clone that always takes the executor's runtime config and state.
CloneFromExecutor(src) ==
    /\ numHandlers < Cardinality(Handlers)
    /\ src \in Live
    /\ CloneSourceOk(src)
    /\ numHandlers' = numHandlers + 1
    /\ handler' = [handler EXCEPT ![numHandlers + 1] =
           [spc |-> handler[src].spc, cfg |-> <<ex.cfg>>,
            st |-> <<RuntimeState(ex.step, ex.ran)>>]]
    /\ lastOp' = OpLog("Clone", <<>>, 0, FALSE, TRUE)
    /\ UNCHANGED <<spcInner, ex, current_handler_, executor_mutex_, locked>>

CloneContextHandler(src) ==
    /\ numHandlers < Cardinality(Handlers)
    /\ src \in Live
    /\ CloneSourceOk(src)
    /\ LET own == HasRuntimeConfig(src) /\ HasRuntimeState(src)
           runtime_config == IF own THEN handler[src].cfg[1] ELSE ex.cfg
           runtime_state == IF own THEN handler[src].st[1]
                            ELSE RuntimeState(ex.step, ex.ran)
       IN  /\ numHandlers' = numHandlers + 1
           /\ handler' = [handler EXCEPT ![numHandlers + 1] =
                  [spc |-> handler[src].spc, cfg |-> <<runtime_config>>,
                   st |-> <<runtime_state>>]]
    /\ lastOp' = OpLog("Clone", <<>>, 0, FALSE, TRUE)
    /\ UNCHANGED <<spcInner, ex, current_handler_, executor_mutex_, locked>>

\* AcquireExecutor, lines 622-634: a handle bound to no handler.
AcquireExecutor(t) ==
    /\ MutexFree
    /\ locked[t] = <<>>
    /\ executor_mutex_' = t
    /\ locked' = [locked EXCEPT ![t] = <<0>>]
    /\ lastOp' = NoOp
    /\ UNCHANGED <<numHandlers, handler, spcInner, ex, current_handler_>>

SuspendNothing(hf, cur) == hf

\* The handler cur with the executor's runtime config and state put back
\* (lines 701-708 and 742-753).
SuspendCurrent(hf, cur) ==
    [hf EXCEPT ![cur].cfg = <<ex.cfg>>,
               ![cur].st = <<RuntimeState(ex.step, ex.ran)>>]

\* Lines 698-736: both handlers share one SharedProcessedContext.
SwitchSameContext(new) ==
    LET cur == current_handler_
        h1 == SuspendCurrent(handler, cur)
        ok == HasRuntimeConfig(new) /\ HasRuntimeState(new)
        st == h1[new].st[1]
        step == ClampStep(st.current_step, Len(ex.tokens))
    IN  IF ~ok
        THEN [handler |-> h1, spcInner |-> spcInner, ex |-> ex,
              calls |-> <<>>, tc |-> 0, ok |-> FALSE]
        ELSE [handler |-> [h1 EXCEPT ![new].cfg = <<>>, ![new].st = <<>>],
              spcInner |-> spcInner,
              ex |-> [ex EXCEPT !.cfg = h1[new].cfg[1], !.step = step,
                                !.ran = st.ran_decode],
              calls |-> <<Call("UpdateRuntimeConfig", <<>>, -1),
                          Call("UpdateRuntimeState", <<>>, step)>>,
              tc |-> Len(ex.tokens), ok |-> TRUE]

AlwaysRestore(token_count, current_step, ran_decode) == FALSE

\* Lines 783-785: the handler to install has never held anything.
is_fresh_context(token_count, current_step, ran_decode) ==
    token_count = 0 /\ current_step = 0 /\ ~ran_decode

\* Lines 737-815: the contexts differ; the current one is cloned out of the
\* executor and the new one is created or restored.
SwitchOtherContext(new) ==
    LET cur == current_handler_
        h1 == IF cur # 0 THEN SuspendCurrent(handler, cur) ELSE handler
        in1 == IF cur # 0
               THEN [spcInner EXCEPT ![handler[cur].spc] = <<ex.tokens>>]
               ELSE spcInner
        ok == HasRuntimeConfig(new) /\ HasRuntimeState(new)
        st == h1[new].st[1]
        pc == in1[h1[new].spc]
        tokens == IF pc = <<>> THEN <<>> ELSE pc[1]
        step == ClampStep(st.current_step, Len(tokens))
        fresh == is_fresh_context(Len(tokens), step, st.ran_decode)
        restored == [tokens |-> tokens, step |-> step,
                     ran |-> st.ran_decode, cfg |-> h1[new].cfg[1],
                     ok |-> TRUE]
        save == IF cur # 0 THEN <<Call("CloneContext", <<>>, -1)>> ELSE <<>>
    IN  IF ~ok
        THEN [handler |-> h1, spcInner |-> in1, ex |-> ex,
              calls |-> save, tc |-> 0, ok |-> FALSE]
        ELSE [handler |-> [h1 EXCEPT ![new].cfg = <<>>, ![new].st = <<>>],
              spcInner |-> [in1 EXCEPT ![h1[new].spc] = <<>>],
              ex |-> restored,
              calls |-> save \o
                        (IF fresh
                         THEN <<Call("CreateNewContext", <<>>, 0),
                                Call("RestoreContext", <<>>, 0),
                                Call("UpdateRuntimeState", <<>>, step)>>
                         ELSE <<Call("RestoreContext", <<>>, step)>>),
              tc |-> Len(tokens), ok |-> TRUE]

NeverSameHandler(new) == FALSE

\* Lines 688-693: the requested handler is the current one.
SameHandler(new) == new = current_handler_

\* AcquireExecutorWithContextHandler, lines 636-855.
AcquireExecutorWithContextHandler(t, new) ==
    /\ MutexFree
    /\ locked[t] = <<>>
    /\ new \in Live
    /\ LET r == IF SameHandler(new)
                THEN [handler |-> handler, spcInner |-> spcInner, ex |-> ex,
                      calls |-> <<>>, tc |-> 0, ok |-> TRUE]
                ELSE IF current_handler_ # 0
                        /\ handler[new].spc = handler[current_handler_].spc
                THEN SwitchSameContext(new)
                ELSE SwitchOtherContext(new)
       IN  /\ handler' = r.handler
           /\ spcInner' = r.spcInner
           /\ ex' = r.ex
           /\ current_handler_' = IF r.ok THEN new ELSE current_handler_
           /\ executor_mutex_' = IF r.ok THEN t ELSE executor_mutex_
           /\ locked' = IF r.ok THEN [locked EXCEPT ![t] = <<new>>] ELSE locked
           /\ lastOp' = OpLog("Acquire", r.calls, r.tc, FALSE, r.ok)
    /\ UNCHANGED numHandlers

\* ~LockedLlmExecutor: the handle's MovableMutexLock is released.
ReleaseExecutor(t) ==
    /\ locked[t] # <<>>
    /\ locked' = [locked EXCEPT ![t] = <<>>]
    /\ executor_mutex_' = "free"
    /\ lastOp' = NoOp
    /\ UNCHANGED <<numHandlers, handler, spcInner, ex, current_handler_>>

InitRM ==
    /\ numHandlers = 0
    /\ handler = [h \in Handlers |-> NoHandlerRec]
    /\ spcInner = [s \in SpcIds |-> <<>>]
    /\ ex = [tokens |-> <<>>, step |-> 0, ran |-> FALSE, cfg |-> 0,
             ok |-> TRUE]
    /\ current_handler_ = 0
    /\ executor_mutex_ = "free"
    /\ locked = [t \in Threads |-> <<>>]
    /\ lastOp = NoOp

\* ====================================================== SessionAdvanced
\* ------------------------------------------------------ ExecutionManager
TaskIds == 1..MaxTasks
Sessions == {1, 2}

EndStates ==
    {"Done", "Failed", "Cancelled", "DependentTaskFailed",
     "DependentTaskCancelled"}

NeverEndState(task_state) == FALSE

IsTaskEndState(task_state) == task_state \in EndStates

\* A TaskInfo of task_lookup_: callback is the callback the session handed
\* over ("caller": the caller's own, "wrapped": RunDecodeAsync's
\* wrapped_callback, "noop": the tail prefill's noop_callback); invoked counts
\* its invocations and reported is the state of the last one; under_mutex
\* says that an invocation was made by a thread holding
\* session_and_task_lookup_mutex_.
NoTask ==
    [kind |-> "none", session |-> 0, deps |-> {}, state |-> "none",
     callback |-> "none", cancelled |-> FALSE, invoked |-> 0,
     reported |-> "none", under_mutex |-> FALSE]

\* The state a task takes from its dependencies: Created when none of them
\* has failed or was cancelled.
DependencyState(lookup, deps) ==
    IF \E d \in deps : lookup[d].state \in {"Failed", "DependentTaskFailed"}
    THEN "DependentTaskFailed"
    ELSE IF \E d \in deps :
                lookup[d].state \in {"Cancelled", "DependentTaskCancelled"}
    THEN "DependentTaskCancelled"
    ELSE "Created"

\* An entry of the callback worker's queue: the callable to run for task id.
CallbackJob(id, callback) == [task |-> id, callback |-> callback]

ScheduleOnCallbackWorker(queue, id, callback) ==
    Append(queue, CallbackJob(id, callback))

\* CreateTask: the new TaskInfo. A task that starts in an end state because
\* of its dependencies has its callback invoked at once, by the submitting
\* thread, inside CreateTask and so with the lookup mutex held.
CreateTask(lookup, id, kind, s, deps, callback) ==
    LET task_state == DependencyState(lookup, deps)
        at_once == IsTaskEndState(task_state)
    IN  [lookup EXCEPT ![id] =
            [kind |-> kind, session |-> s, deps |-> deps,
             state |-> task_state, callback |-> callback,
             cancelled |-> FALSE,
             invoked |-> IF at_once THEN 1 ELSE 0,
             reported |-> IF at_once THEN task_state ELSE "none",
             under_mutex |-> at_once]]

\* QueueTask: a task created in state Created goes to the execution worker.
QueueTask(queue, lookup, id) ==
    IF lookup[id].state = "Created" THEN Append(queue, id) ELSE queue

SessionExists(s) == session_state_[s] # "absent"

\* --------------------------------------------------- session operations
\* RunPrefillAsync, lines 134-184: the caller's callback is handed to
\* AddPrefillTask as it is.
RunPrefillAsync(s) ==
    /\ SessionExists(s)
    /\ next_task_id_ < MaxTasks
    /\ LET task_id == next_task_id_ + 1
           lookup == CreateTask(task_lookup_, task_id, "prefill", s,
                                last_task_ids_[s], "caller")
       IN  /\ next_task_id_' = task_id
           /\ task_lookup_' = lookup
           /\ execution_thread_pool_' =
                  QueueTask(execution_thread_pool_, lookup, task_id)
           /\ session_state_' = [session_state_ EXCEPT ![s] = "Prefilled"]
           /\ last_task_ids_' = [last_task_ids_ EXCEPT ![s] = {task_id}]
    /\ UNCHANGED <<apply_prompt_template, callback_thread_pool_, running>>

\* RunDecodeAsync, lines 285-360, without the tail prefill.
DecodeOnly(s) ==
    LET task_id == next_task_id_ + 1
        lookup == CreateTask(task_lookup_, task_id, "decode", s,
                             last_task_ids_[s], "wrapped")
    IN  /\ next_task_id_' = task_id
        /\ task_lookup_' = lookup
        /\ execution_thread_pool_' =
               QueueTask(execution_thread_pool_, lookup, task_id)
        /\ last_task_ids_' = [last_task_ids_ EXCEPT ![s] = {task_id}]

\* RunDecodeAsync with the prompt template applied in the session: a tail
\* prefill with a noop callback is submitted first (lines 302-320) and the
\* decode depends on it.
TailPrefillThenDecode(s) ==
    LET tail_id == next_task_id_ + 1
        task_id == next_task_id_ + 2
        lookup1 == CreateTask(task_lookup_, tail_id, "prefill", s,
                              last_task_ids_[s], "noop")
        queue1 == QueueTask(execution_thread_pool_, lookup1, tail_id)
        lookup2 == CreateTask(lookup1, task_id, "decode", s, {tail_id},
                              "wrapped")
    IN  /\ next_task_id_' = task_id
        /\ task_lookup_' = lookup2
        /\ execution_thread_pool_' = QueueTask(queue1, lookup2, task_id)
        /\ last_task_ids_' = [last_task_ids_ EXCEPT ![s] = {task_id}]

RunDecodeAsync(s) ==
    /\ SessionExists(s)
    /\ session_state_[s] = "Prefilled"
    /\ IF apply_prompt_template
       THEN next_task_id_ + 2 <= MaxTasks /\ TailPrefillThenDecode(s)
       ELSE next_task_id_ < MaxTasks /\ DecodeOnly(s)
    /\ session_state_' = [session_state_ EXCEPT ![s] = "Decoded"]
    /\ UNCHANGED <<apply_prompt_template, callback_thread_pool_, running>>

\* RunTextScoringAsync, lines 388-409: last_task_ids_ is read, not written.
RunTextScoringAsync(s) ==
    /\ SessionExists(s)
    /\ next_task_id_ < MaxTasks
    /\ LET task_id == next_task_id_ + 1
           lookup == CreateTask(task_lookup_, task_id, "score", s,
                                last_task_ids_[s], "caller")
       IN  /\ next_task_id_' = task_id
           /\ task_lookup_' = lookup
           /\ execution_thread_pool_' =
                  QueueTask(execution_thread_pool_, lookup, task_id)
    /\ UNCHANGED <<apply_prompt_template, session_state_, last_task_ids_,
                   callback_thread_pool_, running>>

\* A clone session that starts without the clone task in last_task_ids_.
CloneStartsUnchained(s, dst) ==
    /\ SessionExists(s)
    /\ ~SessionExists(dst)
    /\ next_task_id_ < MaxTasks
    /\ LET task_id == next_task_id_ + 1
           lookup == CreateTask(task_lookup_, task_id, "clone", s,
                                last_task_ids_[s], "caller")
       IN  /\ next_task_id_' = task_id
           /\ task_lookup_' = lookup
           /\ execution_thread_pool_' =
                  QueueTask(execution_thread_pool_, lookup, task_id)
           /\ last_task_ids_' = [last_task_ids_ EXCEPT ![s] = {task_id}]
           /\ session_state_' =
                  [session_state_ EXCEPT ![dst] = session_state_[s]]
    /\ UNCHANGED <<apply_prompt_template, callback_thread_pool_, running>>

\* CloneAsync, lines 498-523: the new session dst starts from the parent's
\* session_state_ and last_task_ids_.
CloneAsync(s, dst) ==
    /\ SessionExists(s)
    /\ ~SessionExists(dst)
    /\ next_task_id_ < MaxTasks
    /\ LET task_id == next_task_id_ + 1
           lookup == CreateTask(task_lookup_, task_id, "clone", s,
                                last_task_ids_[s], "caller")
       IN  /\ next_task_id_' = task_id
           /\ task_lookup_' = lookup
           /\ execution_thread_pool_' =
                  QueueTask(execution_thread_pool_, lookup, task_id)
           /\ last_task_ids_' = [last_task_ids_ EXCEPT ![s] = {task_id},
                                                       ![dst] = {task_id}]
           /\ session_state_' =
                  [session_state_ EXCEPT ![dst] = session_state_[s]]
    /\ UNCHANGED <<apply_prompt_template, callback_thread_pool_, running>>

\* ------------------------------------------------------------- workers
\* The callable FinishTaskAndLogErrors is given when StartTask fails: the
\* clone-session task passes an empty lambda, the other tasks their callback.
StartFailureCallback(kind, callback) ==
    IF kind = "clone" THEN "empty" ELSE callback

\* The execution worker takes the next task. A task cancelled while waiting
\* is dropped; a task with a failed or cancelled dependency ends without
\* running; StartTask may fail (start_ok = FALSE); otherwise the task runs.
StartTask(start_ok) ==
    /\ running = 0
    /\ execution_thread_pool_ # <<>>
    /\ LET id == Head(execution_thread_pool_)
           info == task_lookup_[id]
           dep_state == DependencyState(task_lookup_, info.deps)
       IN  /\ execution_thread_pool_' = Tail(execution_thread_pool_)
           /\ IF IsTaskEndState(info.state)
              THEN UNCHANGED <<task_lookup_, callback_thread_pool_, running>>
              ELSE IF dep_state # "Created"
              THEN /\ task_lookup_' =
                          [task_lookup_ EXCEPT ![id].state = dep_state]
                   /\ callback_thread_pool_' =
                          ScheduleOnCallbackWorker(callback_thread_pool_,
                                                   id, info.callback)
                   /\ UNCHANGED running
              ELSE IF ~start_ok
              THEN /\ task_lookup_' =
                          [task_lookup_ EXCEPT ![id].state = "Failed"]
                   /\ callback_thread_pool_' =
                          ScheduleOnCallbackWorker(
                              callback_thread_pool_, id,
                              StartFailureCallback(info.kind, info.callback))
                   /\ UNCHANGED running
              ELSE /\ task_lookup_' =
                          [task_lookup_ EXCEPT ![id].state = "Running"]
                   /\ running' = id
                   /\ UNCHANGED callback_thread_pool_
    /\ UNCHANGED <<apply_prompt_template, session_state_, last_task_ids_,
                   next_task_id_>>

\* The running task returns: Done, Failed, or Cancelled when the operation
\* observed the cancel flag; its callback goes to the callback worker.
FinishTask(result) ==
    /\ running # 0
    /\ result = "Cancelled" => task_lookup_[running].cancelled
    /\ task_lookup_' = [task_lookup_ EXCEPT ![running].state = result]
    /\ callback_thread_pool_' =
           ScheduleOnCallbackWorker(callback_thread_pool_, running,
                                    task_lookup_[running].callback)
    /\ running' = 0
    /\ UNCHANGED <<apply_prompt_template, session_state_, last_task_ids_,
                   next_task_id_, execution_thread_pool_>>

\* What a callback does to its session's last_task_ids_: wrapped_callback
\* (lines 332-348) and the callback of the synchronous RunPrefill (lines
\* 103-125) clear it on every end state but Done.
AfterCallback(callback, task_state, ids) ==
    IF callback \in {"wrapped", "prefill_sync"} /\ task_state # "Done"
    THEN {} ELSE ids

\* The callback worker runs the next callable.
RunCallback ==
    /\ callback_thread_pool_ # <<>>
    /\ LET job == Head(callback_thread_pool_)
           info == task_lookup_[job.task]
       IN  /\ callback_thread_pool_' = Tail(callback_thread_pool_)
           /\ task_lookup_' =
                  IF job.callback = "empty" THEN task_lookup_
                  ELSE [task_lookup_ EXCEPT
                           ![job.task].invoked = info.invoked + 1,
                           ![job.task].reported = info.state]
           /\ last_task_ids_' =
                  [last_task_ids_ EXCEPT ![info.session] =
                      AfterCallback(job.callback, info.state,
                                    last_task_ids_[info.session])]
    /\ UNCHANGED <<apply_prompt_template, session_state_, next_task_id_,
                   execution_thread_pool_, running>>

\* TaskController::Cancel: the cancel flag is set, and a task that has not
\* started ends Cancelled at once.
Cancel(id) ==
    /\ id <= next_task_id_
    /\ ~task_lookup_[id].cancelled
    /\ ~IsTaskEndState(task_lookup_[id].state)
    /\ IF task_lookup_[id].state = "Created"
       THEN /\ task_lookup_' = [task_lookup_ EXCEPT ![id].cancelled = TRUE,
                                                    ![id].state = "Cancelled"]
            /\ callback_thread_pool_' =
                   ScheduleOnCallbackWorker(callback_thread_pool_, id,
                                            task_lookup_[id].callback)
       ELSE /\ task_lookup_' = [task_lookup_ EXCEPT ![id].cancelled = TRUE]
            /\ UNCHANGED callback_thread_pool_
    /\ UNCHANGED <<apply_prompt_template, session_state_, last_task_ids_,
                   next_task_id_, execution_thread_pool_, running>>

InitEM ==
    /\ session_state_ = [s \in Sessions |-> IF s = 1 THEN "Fresh" ELSE "absent"]
    /\ last_task_ids_ = [s \in Sessions |-> {}]
    /\ next_task_id_ = 0
    /\ task_lookup_ = [id \in TaskIds |-> NoTask]
    /\ execution_thread_pool_ = <<>>
    /\ callback_thread_pool_ = <<>>
    /\ running = 0

\* ------------------------------------------- session interface, statuses
\* execution_manager_.lock() yields the manager.
ManagerAvailable == execution_manager_ = "alive"

\* What a call of the session interface returned: the operation, the session
\* and the status code.
Returned(op, s, status) == [op |-> op, session |-> s, status |-> status]

NoCall == Returned("none", 0, "Ok")

NotWaiting == [op |-> "none", session |-> 0, task |-> 0]

\* The early returns of RunPrefillAsync (lines 138-143), RunTextScoringAsync
\* (lines 396-399) and CloneAsync (lines 500-503): only the expired manager.
ManagerStatus ==
    IF ManagerAvailable THEN "Ok" ELSE "FailedPrecondition"

\* The early returns of RunDecodeAsync: the state check of lines 287-289
\* comes first and returns absl::InternalError, the manager check of lines
\* 293-296 second.
RunDecodeAsyncStatus(s) ==
    IF session_state_[s] # "Prefilled" THEN "Internal" ELSE ManagerStatus

\* A refused call returns its status and touches nothing.
Refused(op, s, status) ==
    /\ returned' = Returned(op, s, status)
    /\ UNCHANGED emVars

\* A prefill submission that leaves session_state_ as it was.
SubmitWithoutState(s, callback) ==
    /\ next_task_id_ < MaxTasks
    /\ LET task_id == next_task_id_ + 1
           lookup == CreateTask(task_lookup_, task_id, "prefill", s,
                                last_task_ids_[s], callback)
       IN  /\ next_task_id_' = task_id
           /\ task_lookup_' = lookup
           /\ execution_thread_pool_' =
                  QueueTask(execution_thread_pool_, lookup, task_id)
           /\ last_task_ids_' = [last_task_ids_ EXCEPT ![s] = {task_id}]
    /\ UNCHANGED <<apply_prompt_template, callback_thread_pool_, running,
                   session_state_>>

\* AddPrefillTask with the given callback and the two assignments after it
\* (lines 172-180).
SubmitPrefill(s, callback) ==
    /\ next_task_id_ < MaxTasks
    /\ LET task_id == next_task_id_ + 1
           lookup == CreateTask(task_lookup_, task_id, "prefill", s,
                                last_task_ids_[s], callback)
       IN  /\ next_task_id_' = task_id
           /\ task_lookup_' = lookup
           /\ execution_thread_pool_' =
                  QueueTask(execution_thread_pool_, lookup, task_id)
           /\ session_state_' = [session_state_ EXCEPT ![s] = "Prefilled"]
           /\ last_task_ids_' = [last_task_ids_ EXCEPT ![s] = {task_id}]
    /\ UNCHANGED <<apply_prompt_template, callback_thread_pool_, running>>

\* The tasks RunDecodeAsync submits (lines 302-356) on top of the given
\* lookup and queue: the tail prefill when the prompt template is applied in
\* the session, then the decode with the wrapped callback.
DecodeSubmission(lookup, queue, next, deps, s) ==
    IF apply_prompt_template
    THEN LET lookup1 == CreateTask(lookup, next + 1, "prefill", s, deps,
                                   "noop")
             queue1 == QueueTask(queue, lookup1, next + 1)
             lookup2 == CreateTask(lookup1, next + 2, "decode", s,
                                   {next + 1}, "wrapped")
         IN  [lookup |-> lookup2, next |-> next + 2,
              queue |-> QueueTask(queue1, lookup2, next + 2)]
    ELSE LET lookup1 == CreateTask(lookup, next + 1, "decode", s, deps,
                                   "wrapped")
         IN  [lookup |-> lookup1, next |-> next + 1,
              queue |-> QueueTask(queue, lookup1, next + 1)]

\* The number of tasks one RunDecodeAsync submits.
DecodeTaskCount == IF apply_prompt_template THEN 2 ELSE 1

\* The caller is not blocked in a synchronous wrapper.
CallerFree == waiting = NotWaiting

\* ---- the asynchronous operations as the caller sees them
SessionRunPrefillAsync(s) ==
    /\ SessionExists(s)
    /\ CallerFree
    /\ IF ManagerStatus = "Ok"
       THEN /\ RunPrefillAsync(s)
            /\ returned' = Returned("RunPrefillAsync", s, "Ok")
       ELSE Refused("RunPrefillAsync", s, ManagerStatus)
    /\ UNCHANGED <<execution_manager_, stream_callback, waiting>>

SessionRunDecodeAsync(s) ==
    /\ SessionExists(s)
    /\ CallerFree
    /\ IF RunDecodeAsyncStatus(s) = "Ok"
       THEN /\ RunDecodeAsync(s)
            /\ returned' = Returned("RunDecodeAsync", s, "Ok")
       ELSE Refused("RunDecodeAsync", s, RunDecodeAsyncStatus(s))
    /\ UNCHANGED <<execution_manager_, stream_callback, waiting>>

SessionRunTextScoringAsync(s) ==
    /\ SessionExists(s)
    /\ CallerFree
    /\ IF ManagerStatus = "Ok"
       THEN /\ RunTextScoringAsync(s)
            /\ returned' = Returned("RunTextScoringAsync", s, "Ok")
       ELSE Refused("RunTextScoringAsync", s, ManagerStatus)
    /\ UNCHANGED <<execution_manager_, stream_callback, waiting>>

SessionCloneAsync(s, dst) ==
    /\ SessionExists(s)
    /\ CallerFree
    /\ IF ManagerStatus = "Ok"
       THEN /\ CloneAsync(s, dst)
            /\ returned' = Returned("CloneAsync", s, "Ok")
       ELSE Refused("CloneAsync", s, ManagerStatus)
    /\ UNCHANGED <<execution_manager_, stream_callback, waiting>>

\* ---- GenerateContentStream, lines 424-461
\* The call itself: RunPrefillAsync with the lambda prefill_callback, which
\* holds the caller's stream callback. A prefill task that starts in an end
\* state has prefill_callback invoked inside AddPrefillTask: that state is
\* never Done, so the stream callback receives the structured Cancelled
\* status (lines 444-454) before lines 179-180 assign last_task_ids_.
GenerateContentStream(s) ==
    /\ SessionExists(s)
    /\ CallerFree
    /\ IF ManagerStatus = "Ok"
       THEN /\ SubmitPrefill(s, "stream")
            /\ returned' = Returned("GenerateContentStream", s, "Ok")
            /\ stream_callback' =
                   [stream_callback EXCEPT ![next_task_id_'] =
                       IF IsTaskEndState(task_lookup_'[next_task_id_'].state)
                       THEN "Cancelled" ELSE "held"]
       ELSE /\ Refused("GenerateContentStream", s, ManagerStatus)
            /\ UNCHANGED stream_callback
    /\ UNCHANGED <<execution_manager_, waiting>>

\* The lambda prefill_callback on the callback worker. Prefill Done: the
\* stream callback is moved into RunDecodeAsync; when that call returns an
\* error the error is logged and the callback is destroyed with the argument
\* (lines 437-443). Any other end state: last_task_ids_ is cleared and the
\* stream callback receives the structured Cancelled status (lines 444-454).
PrefillCallback ==
    /\ callback_thread_pool_ # <<>>
    /\ Head(callback_thread_pool_).callback = "stream"
    /\ LET p == Head(callback_thread_pool_).task
           info == task_lookup_[p]
           s == info.session
           lookup0 == [task_lookup_ EXCEPT ![p].invoked = info.invoked + 1,
                                           ![p].reported = info.state]
           sub == DecodeSubmission(lookup0, execution_thread_pool_,
                                   next_task_id_, last_task_ids_[s], s)
       IN  /\ callback_thread_pool_' = Tail(callback_thread_pool_)
           /\ IF info.state = "Done" /\ RunDecodeAsyncStatus(s) = "Ok"
              THEN /\ next_task_id_ + DecodeTaskCount <= MaxTasks
                   /\ task_lookup_' = sub.lookup
                   /\ execution_thread_pool_' = sub.queue
                   /\ next_task_id_' = sub.next
                   /\ session_state_' =
                          [session_state_ EXCEPT ![s] = "Decoded"]
                   /\ last_task_ids_' =
                          [last_task_ids_ EXCEPT ![s] = {sub.next}]
                   /\ stream_callback' =
                          [stream_callback EXCEPT ![p] = "moved"]
              ELSE IF info.state = "Done"
              THEN /\ task_lookup_' = lookup0
                   /\ stream_callback' =
                          [stream_callback EXCEPT ![p] = "dropped"]
                   /\ UNCHANGED <<execution_thread_pool_, next_task_id_,
                                  session_state_, last_task_ids_>>
              ELSE /\ task_lookup_' = lookup0
                   /\ last_task_ids_' = [last_task_ids_ EXCEPT ![s] = {}]
                   /\ stream_callback' =
                          [stream_callback EXCEPT ![p] = "Cancelled"]
                   /\ UNCHANGED <<execution_thread_pool_, next_task_id_,
                                  session_state_>>
    /\ UNCHANGED <<apply_prompt_template, running, execution_manager_,
                   returned, waiting>>

\* Any other callable of the callback worker.
OtherCallback ==
    /\ callback_thread_pool_ # <<>>
    /\ Head(callback_thread_pool_).callback # "stream"
    /\ RunCallback
    /\ UNCHANGED saVars

\* ---- the synchronous wrappers
\* RunPrefill (lines 92-132), RunDecode (190-278), RunTextScoring (362-386):
\* the asynchronous twin, then WaitUntilDone(kDefaultTimeout) on its task.
\* Clone (480-496): CloneAsync, then the waits of lines 489-493.
RunPrefill(s) ==
    /\ SessionExists(s)
    /\ CallerFree
    /\ IF ManagerStatus = "Ok"
       THEN /\ SubmitPrefill(s, "prefill_sync")
            /\ waiting' = [op |-> "RunPrefill", session |-> s,
                           task |-> next_task_id_']
            /\ UNCHANGED returned
       ELSE /\ Refused("RunPrefill", s, ManagerStatus)
            /\ UNCHANGED waiting
    /\ UNCHANGED <<execution_manager_, stream_callback>>

\* RunDecode checks the manager first (lines 192-195), RunDecodeAsync the
\* session state after that.
RunDecode(s) ==
    /\ SessionExists(s)
    /\ CallerFree
    /\ IF ManagerStatus = "Ok" /\ RunDecodeAsyncStatus(s) = "Ok"
       THEN /\ RunDecodeAsync(s)
            /\ waiting' = [op |-> "RunDecode", session |-> s,
                           task |-> next_task_id_']
            /\ UNCHANGED returned
       ELSE /\ Refused("RunDecode", s,
                       IF ManagerStatus # "Ok" THEN ManagerStatus
                       ELSE RunDecodeAsyncStatus(s))
            /\ UNCHANGED waiting
    /\ UNCHANGED <<execution_manager_, stream_callback>>

RunTextScoring(s) ==
    /\ SessionExists(s)
    /\ CallerFree
    /\ IF ManagerStatus = "Ok"
       THEN /\ RunTextScoringAsync(s)
            /\ waiting' = [op |-> "RunTextScoring", session |-> s,
                           task |-> next_task_id_']
            /\ UNCHANGED returned
       ELSE /\ Refused("RunTextScoring", s, ManagerStatus)
            /\ UNCHANGED waiting
    /\ UNCHANGED <<execution_manager_, stream_callback>>

Clone(s, dst) ==
    /\ SessionExists(s)
    /\ CallerFree
    /\ IF ManagerStatus = "Ok"
       THEN /\ CloneAsync(s, dst)
            /\ waiting' = [op |-> "Clone", session |-> s,
                           task |-> next_task_id_']
            /\ UNCHANGED returned
       ELSE /\ Refused("Clone", s, ManagerStatus)
            /\ UNCHANGED waiting
    /\ UNCHANGED <<execution_manager_, stream_callback>>

\* The wait of a wrapper is over: the task is in an end state and its
\* callable has left the callback worker; Clone also needs the notification
\* its own callback gives (line 490).
WaitFinished(w) ==
    /\ IsTaskEndState(task_lookup_[w.task].state)
    /\ \A i \in 1..Len(callback_thread_pool_) :
           callback_thread_pool_[i].task # w.task
    /\ w.op = "Clone" => task_lookup_[w.task].invoked >= 1

\* How the manager hands an end state to the callback: a task's own failure
\* as its error status (FinishTaskAndLogErrors(task_id, status, callback)),
\* every other end state as Responses(task_state).
DeliveredAsStatus(task_state) == task_state = "Failed"

\* The status the wrapper returns after a wait that did not time out. Every
\* sync callback keeps an error status it is given (lines 102-106, 208-212,
\* 376-379, 485-486). The sync callbacks of RunPrefill (lines 108-119) and
\* RunDecode (lines 213-227) turn a cancelled task into the structured
\* Cancelled status; for every other task state, Failed and
\* DependentTaskFailed included, RunPrefill ends with status = OkStatus()
\* (line 126) and the other wrappers return the Responses they were given.
WrapperStatus(w) ==
    IF DeliveredAsStatus(task_lookup_[w.task].reported)
    THEN "Error"
    ELSE IF /\ w.op \in {"RunPrefill", "RunDecode"}
            /\ task_lookup_[w.task].reported \in
                   {"Cancelled", "DependentTaskCancelled"}
    THEN "Cancelled"
    ELSE "Ok"

WaitUntilDone ==
    /\ ~CallerFree
    /\ WaitFinished(waiting)
    /\ returned' = Returned(waiting.op, waiting.session,
                            WrapperStatus(waiting))
    /\ waiting' = NotWaiting
    /\ UNCHANGED <<emVars, execution_manager_, stream_callback>>

\* A timeout that asks the manager to cancel the task waited for.
CancelOnTimeout(lookup, id) ==
    [lookup EXCEPT ![id].cancelled = TRUE]

\* What a wrapper does to the task table when its wait times out:
\* RETURN_IF_ERROR hands the status on, nothing else (lines 130, 276, 384,
\* 489-493).
OnTimeout(lookup, id) == lookup

\* kDefaultTimeout elapses before the wait is over.
WaitTimesOut ==
    /\ ~CallerFree
    /\ ~WaitFinished(waiting)
    /\ returned' = Returned(waiting.op, waiting.session,
                            "DeadlineExceeded")
    /\ waiting' = NotWaiting
    /\ task_lookup_' = OnTimeout(task_lookup_, waiting.task)
    /\ UNCHANGED <<apply_prompt_template, session_state_, last_task_ids_,
                   next_task_id_, execution_thread_pool_,
                   callback_thread_pool_, running, execution_manager_,
                   stream_callback>>

\* The last owner lets go of the ExecutionManager: every weak_ptr to it
\* expires.
ManagerExpires ==
    /\ ManagerAvailable
    /\ CallerFree
    /\ execution_manager_' = "expired"
    /\ UNCHANGED <<emVars, stream_callback, returned, waiting>>

InitSA ==
    /\ execution_manager_ = "alive"
    /\ stream_callback = [id \in TaskIds |-> "none"]
    /\ returned = NoCall
    /\ waiting = NotWaiting

\* ================================================= SentencePieceTokenizer
\* Token ids by what the processor says of them: "p" is an ordinary piece,
\* the others are byte tokens <0x..>: "a" an ASCII byte, "c" a
\* continuation byte, "l2", "l3" and "l4" the lead bytes of a 2-, a 3- and a
\* 4-byte code point, "x" a byte that is no valid UTF-8.
TokenIds == {"p", "a", "c", "l2", "l3", "l4", "x"}

IsByte(token_id) == token_id # "p"

\* GetUtf8LengthFromByteToken of the token's piece.
GetUtf8Length(token_id) ==
    CASE token_id = "a" -> 1
      [] token_id = "l2" -> 2
      [] token_id = "l3" -> 3
      [] token_id = "l4" -> 4
      [] token_id = "c" -> 0
      [] OTHER -> -1

Max2(a, b) == IF a > b THEN a ELSE b

\* Text is kept as the sequence of its parts: a part is what one DecodeIds
\* call or one IdToPiece call appended.
DecodeIds(ids) == [fn |-> "DecodeIds", ids |-> ids]
IdToPiece(token_id) == [fn |-> "IdToPiece", ids |-> <<token_id>>]

\* The tokenizer members TokenIdsToText reads and writes.
TokenizerState(buffered, chunk) ==
    [buffered_token_ids_ |-> buffered, size_of_token_chunk_ |-> chunk]

\* One round of the loop of TokenIdsToText (lines 344-374): the members
\* after it and the text it appended.
DecodeToken(st, token_id) ==
    IF IsByte(token_id)
    THEN LET utf8_length == GetUtf8Length(token_id)
             chunk == Max2(st.size_of_token_chunk_, utf8_length)
             buffered == Append(st.buffered_token_ids_, token_id)
         IN  IF st.size_of_token_chunk_ = 0 /\ utf8_length <= 1
             THEN [st |-> st, text |-> <<DecodeIds(<<token_id>>)>>]
             ELSE IF Len(buffered) >= chunk
             THEN [st |-> TokenizerState(<<>>, 0),
                   text |-> <<DecodeIds(buffered)>>]
             ELSE [st |-> TokenizerState(buffered, chunk), text |-> <<>>]
    ELSE [st |-> st, text |-> <<IdToPiece(token_id)>>]

\* A tokenizer that starts every call with an empty buffer.
ForgetBetweenCalls(st) == TokenizerState(<<>>, 0)

\* The members as a call finds them: buffered_token_ids_ and
\* size_of_token_chunk_ are members, so a call starts where the last ended.
AtCallStart(st) == st

\* TokenIdsToText(token_ids) from the members st: the loop over token_ids.
RECURSIVE DecodeLoop(_, _)
DecodeLoop(st, token_ids) ==
    IF token_ids = <<>>
    THEN [st |-> st, text |-> <<>>]
    ELSE LET one == DecodeToken(st, Head(token_ids))
             rest == DecodeLoop(one.st, Tail(token_ids))
         IN  [st |-> rest.st, text |-> one.text \o rest.text]

TokenIdsToTextOf(st, token_ids) == DecodeLoop(AtCallStart(st), token_ids)

VARIABLES
    pending,                \* the ids the caller has still to feed
    fed,                    \* the ids fed so far, over all calls
    tokenizer,              \* buffered_token_ids_ and size_of_token_chunk_
    text,                   \* the texts returned so far, concatenated
    last_call               \* the ids and the text of the last call

tkVars == <<pending, fed, tokenizer, text, last_call>>

\* One call of TokenIdsToText with the next n pending ids.
TokenIdsToText(n) ==
    /\ n <= Len(pending)
    /\ LET token_ids == SubSeq(pending, 1, n)
           call == TokenIdsToTextOf(tokenizer, token_ids)
       IN  /\ tokenizer' = call.st
           /\ text' = text \o call.text
           /\ fed' = fed \o token_ids
           /\ pending' = SubSeq(pending, n + 1, Len(pending))
           /\ last_call' = [token_ids |-> token_ids, text |-> call.text,
                            before |-> tokenizer]

NoTokenizerCall ==
    [token_ids |-> <<>>, text |-> <<>>, before |-> TokenizerState(<<>>, 0)]

\* A tokenizer nobody feeds.
InitTK ==
    /\ pending = <<>>
    /\ fed = <<>>
    /\ tokenizer = TokenizerState(<<>>, 0)
    /\ text = <<>>
    /\ last_call = NoTokenizerCall

\* ====================================================== ResourceRegistry
RegIds == {1, 2}
ResourceTypes == {"TestResource", "AnotherResource"}

\* The ResourceScopedLock objects of the callers.
LockVars == {"lock", "lock1", "lock2"}

VARIABLES
    resources_,     \* ResourceRegistry::resources_: the type registered under
                    \* an id, "none" when the id is absent
    mu_,            \* ResourceRegistry::mu_: "free" or the thread holding it
    node_mu,        \* ResourceNode::mu per id: "free" or "held"
    scoped,         \* the ResourceScopedLock objects: resource_ and lock_
    acquiring,      \* per thread: the Acquire it is blocked in
    registry_call   \* the last call of the registry and its status

rgVars == <<resources_, mu_, node_mu, scoped, acquiring, registry_call>>

NoObject == [live |-> FALSE, resource_ |-> 0, lock_ |-> 0]
NotAcquiring == [id |-> 0, into |-> "none"]

RegistryCall(op, id, type, null, status) ==
    [op |-> op, id |-> id, type |-> type, null |-> null, status |-> status]

\* An id that is reported present whatever was registered.
NeverRegistered(id) == FALSE

\* resources_.find(id) != resources_.end()
Registered(id) == resources_[id] # "none"

\* A node mutex that never makes a caller wait.
NodeAlwaysFree(id) == TRUE

NodeFree(id) == node_mu[id] = "free"

\* Register<T>(id, resource), lines 82-98: the null check comes before mu_
\* is taken.
Register(t, id, type, null) ==
    /\ acquiring[t] = NotAcquiring
    /\ IF null
       THEN /\ registry_call' =
                   RegistryCall("Register", id, type, null, "InvalidArgument")
            /\ UNCHANGED resources_
       ELSE /\ mu_ = "free"
            /\ IF Registered(id)
               THEN /\ registry_call' =
                           RegistryCall("Register", id, type, null,
                                        "AlreadyExists")
                    /\ UNCHANGED resources_
               ELSE /\ registry_call' =
                           RegistryCall("Register", id, type, null, "Ok")
                    /\ resources_' = [resources_ EXCEPT ![id] = type]
    /\ UNCHANGED <<mu_, node_mu, scoped, acquiring>>

\* The ResourceScopedLock Acquire returns, constructed in the caller's
\* object into.
TakeNode(id, into) ==
    /\ node_mu' = [node_mu EXCEPT ![id] = "held"]
    /\ scoped' = [scoped EXCEPT ![into] =
                     [live |-> TRUE, resource_ |-> id, lock_ |-> id]]

\* Acquire<T>(id), lines 109-133: under mu_ the id is looked up and the type
\* checked, then the node mutex is taken while mu_ is still held; a caller
\* that has to wait for the node mutex waits holding mu_.
Acquire(t, id, type, into) ==
    /\ acquiring[t] = NotAcquiring
    /\ ~scoped[into].live
    /\ mu_ = "free"
    /\ IF ~Registered(id)
       THEN /\ registry_call' =
                   RegistryCall("Acquire", id, type, FALSE, "NotFound")
            /\ UNCHANGED <<mu_, node_mu, scoped, acquiring>>
       ELSE IF resources_[id] # type
       THEN /\ registry_call' =
                   RegistryCall("Acquire", id, type, FALSE, "InvalidArgument")
            /\ UNCHANGED <<mu_, node_mu, scoped, acquiring>>
       ELSE IF NodeFree(id)
       THEN /\ TakeNode(id, into)
            /\ registry_call' =
                   RegistryCall("Acquire", id, type, FALSE, "Ok")
            /\ UNCHANGED <<mu_, acquiring>>
       ELSE /\ mu_' = t
            /\ acquiring' = [acquiring EXCEPT ![t] =
                                [id |-> id, into |-> into]]
            /\ UNCHANGED <<node_mu, scoped, registry_call>>
    /\ UNCHANGED resources_

\* The node mutex has become free: the waiting Acquire takes it, leaves mu_
\* and returns.
AcquireWakes(t) ==
    /\ acquiring[t] # NotAcquiring
    /\ NodeFree(acquiring[t].id)
    /\ ~scoped[acquiring[t].into].live
    /\ TakeNode(acquiring[t].id, acquiring[t].into)
    /\ mu_' = "free"
    /\ acquiring' = [acquiring EXCEPT ![t] = NotAcquiring]
    /\ registry_call' =
           RegistryCall("Acquire", acquiring[t].id,
                        resources_[acquiring[t].id], FALSE, "Ok")
    /\ UNCHANGED resources_

\* The node mutexes after the absl::MutexLock an object owns is destroyed.
Unlocked(nodes, obj) ==
    IF obj.lock_ = 0 THEN nodes ELSE [nodes EXCEPT ![obj.lock_] = "free"]

\* ~ResourceScopedLock, line 40.
DestroyLock(v) ==
    /\ scoped[v].live
    /\ node_mu' = Unlocked(node_mu, scoped[v])
    /\ scoped' = [scoped EXCEPT ![v] = NoObject]
    /\ UNCHANGED <<resources_, mu_, acquiring, registry_call>>

\* The move constructor, lines 36-39: a new object to takes resource_ and
\* lock_ of other, which is left holding neither.
MoveConstruct(other, to) ==
    /\ other # to
    /\ scoped[other].live
    /\ ~scoped[to].live
    /\ scoped' = [scoped EXCEPT
                     ![to] = scoped[other],
                     ![other] = [live |-> TRUE, resource_ |-> 0, lock_ |-> 0]]
    /\ UNCHANGED <<resources_, mu_, node_mu, acquiring, registry_call>>

\* The move assignment, lines 46-53: the lock the target owned is destroyed
\* by the assignment to lock_.
MoveAssign(other, to) ==
    /\ other # to
    /\ scoped[other].live
    /\ scoped[to].live
    /\ node_mu' = Unlocked(node_mu, scoped[to])
    /\ scoped' = [scoped EXCEPT
                     ![to] = scoped[other],
                     ![other] = [live |-> TRUE, resource_ |-> 0, lock_ |-> 0]]
    /\ UNCHANGED <<resources_, mu_, acquiring, registry_call>>

InitRG ==
    /\ resources_ = [id \in RegIds |-> "none"]
    /\ mu_ = "free"
    /\ node_mu = [id \in RegIds |-> "free"]
    /\ scoped = [v \in LockVars |-> NoObject]
    /\ acquiring = [t \in Threads |-> NotAcquiring]
    /\ registry_call = RegistryCall("none", 0, "none", FALSE, "Ok")

\* ================================== ResourceManager: failing executor calls
\* The executor and the audio executor are external collaborators whose
\* calls return a status; AcquireExecutorWithContextHandler returns at the
\* first one that fails (ASSIGN_OR_RETURN / RETURN_IF_ERROR).
VARIABLES
    has_audio           \* ContextHandler::HasAudioContext per handler

faVars == <<has_audio>>

HasAudioContext(h) == has_audio[h]

\* The executor call of the switch that fails: the save of the current
\* handler (GetRuntimeConfig at 700, CloneContext at 741), the restore of the
\* new one (UpdateRuntimeConfig at 734, CreateNewContext / RestoreContext at
\* 802-812), or a call of the audio step (823-836).
FaultPoints == {"save", "restore", "audio"}

\* Lines 698-700: the path the switch takes.
SharedContextSwitch(new) ==
    /\ current_handler_ # 0
    /\ handler[new].spc = handler[current_handler_].spc

\* Lines 817-838: the audio step makes calls when there is a current handler
\* and one of the two handlers has an audio context.
AudioStep(new) ==
    /\ current_handler_ # 0
    /\ HasAudioContext(current_handler_) \/ HasAudioContext(new)

\* AcquireExecutorWithContextHandler when the executor call `at` fails.
\* A failing save returns before anything has changed. A failing restore
\* returns after the current handler was given the executor's runtime config,
\* state and ProcessedContext (701-708, 746-756) and after the new handler's
\* were moved out of it (710-713, 759-765); the moved-out values die with the
\* call. A failing audio step returns after the executor was restored with
\* the new handler's context and before line 840 records it as current. The
\* local MovableMutexLock is released on return.
AcquireFails(t, new, at) ==
    /\ MutexFree
    /\ locked[t] = <<>>
    /\ new \in Live
    /\ ~SameHandler(new)
    /\ LET r == IF SharedContextSwitch(new)
                THEN SwitchSameContext(new)
                ELSE SwitchOtherContext(new)
       IN  /\ r.ok
           /\ at = "save" => current_handler_ # 0
           /\ at = "audio" => AudioStep(new)
           /\ handler' = IF at = "save" THEN handler ELSE r.handler
           /\ spcInner' = IF at = "save" THEN spcInner ELSE r.spcInner
           /\ ex' = IF at = "audio" THEN r.ex ELSE ex
           /\ lastOp' = OpLog("Acquire",
                              IF at = "save" THEN <<>> ELSE r.calls,
                              r.tc, FALSE, FALSE)
    /\ UNCHANGED <<numHandlers, current_handler_, executor_mutex_, locked>>

\* CreateContextHandler, lines 501-565: the session config decides whether
\* the handler gets an audio context (549-562).
CreateContextHandlerFor(audio) ==
    /\ CreateContextHandler
    /\ has_audio' = [has_audio EXCEPT ![numHandlers + 1] = audio]

\* CloneContextHandler, lines 611-615: the audio context is cloned with the
\* handler.
CloneContextHandlerOf(src) ==
    /\ CloneContextHandler(src)
    /\ has_audio' = [has_audio EXCEPT ![numHandlers + 1] = has_audio[src]]

\* CloneContextHandler, lines 594-609: a source without runtime config/state
\* that is not current_handler_ is refused; nothing is created.
CloneContextHandlerRefused(src) ==
    /\ src \in Live
    /\ MutexFree
    /\ ~CloneSourceOk(src)
    /\ lastOp' = OpLog("Clone", <<>>, 0, FALSE, FALSE)
    /\ UNCHANGED <<numHandlers, handler, spcInner, ex, current_handler_,
                   executor_mutex_, locked, has_audio>>

InitFA == has_audio = [h \in Handlers |-> FALSE]

\* ======================================== ExecutionManager construction
VARIABLES
    max_num_threads,    \* the thread count the LlmExecutor advertises
    created             \* what ExecutionManager::Create has produced

cmVars == <<max_num_threads, created>>

NotCreated == [status |-> "none", execution_threads |-> 0,
               callback_threads |-> 0]

\* The constructor, execution_manager.h 258-265: both pools are built with
\* max_num_threads = 1; neither the constructor nor Create looks at the
\* executor's thread count, and the pool size is not a parameter.
ExecutionManagerCreate ==
    /\ created = NotCreated
    /\ created' = [status |-> "Ok", execution_threads |-> 1,
                   callback_threads |-> 1]
    /\ UNCHANGED max_num_threads

InitCM == max_num_threads = 1 /\ created = NotCreated

\* ======================================================= MessageIterator
\* A pushed message is a Cancelled status, another error status, a message
\* that is no JsonMessage, an empty JsonMessage or a JsonMessage with content;
\* seq tells the messages apart.
MessageKinds == {"Cancelled", "Error", "NotJson", "Empty", "Json"}

Message(seq, kind) == [seq |-> seq, kind |-> kind]

VARIABLES
    queue_,             \* MessageIterator::queue_
    pushed,             \* every message Push was called with, in call order
    msg,                \* the local msg of a Next call in progress
    delivered,          \* what the calls of Next have returned or thrown
    iterating           \* the consumer has not seen the end of the iteration

miVars == <<queue_, pushed, msg, delivered, iterating>>

\* Push, lines 540-543.
Push(kind) ==
    /\ Len(pushed) < MaxPush
    /\ queue_' = Append(queue_, Message(Len(pushed) + 1, kind))
    /\ pushed' = Append(pushed, Message(Len(pushed) + 1, kind))
    /\ UNCHANGED <<msg, delivered, iterating>>

\* HasData, lines 575-577.
HasData == queue_ # <<>>

Back(queue) == queue[Len(queue)]

\* queue_.front(), line 550.
Front(queue) == Head(queue)

\* Next, lines 546-552: under mutex_, wait for HasData, then move the front
\* message out and pop it.
NextDequeue ==
    /\ iterating
    /\ msg = <<>>
    /\ HasData
    /\ msg' = <<Front(queue_)>>
    /\ queue_' = Tail(queue_)
    /\ UNCHANGED <<pushed, delivered, iterating>>

\* Next, lines 554-572: what the call returns or throws for the message.
Outcome(m) ==
    IF m.kind = "Cancelled" THEN "stop_iteration"
    ELSE IF m.kind = "Error" THEN "runtime_error"
    ELSE IF m.kind = "NotJson" THEN "runtime_error"
    ELSE IF m.kind = "Empty" THEN "stop_iteration"
    ELSE "json"

\* The rest of Next, outside the mutex; an exception ends the consumer's
\* loop.
NextReturn ==
    /\ msg # <<>>
    /\ delivered' = Append(delivered,
                           [message |-> msg[1], outcome |-> Outcome(msg[1])])
    /\ iterating' = (Outcome(msg[1]) = "json")
    /\ msg' = <<>>
    /\ UNCHANGED <<queue_, pushed>>

InitMI ==
    /\ queue_ = <<>>
    /\ pushed = <<>>
    /\ msg = <<>>
    /\ delivered = <<>>
    /\ iterating = TRUE

\* ================================================= audio step of the switch
VARIABLES
    audio_executor_,    \* the streaming state held by the audio executor
    audio_context       \* the audio context each handler holds

auVars == <<audio_executor_, audio_context>>

\* AudioExecutor::CreateNewContext (line 557): an empty streaming state.
NewAudioContext == 0

\* LockedAudioExecutor::Encode on the handle of AcquireAudioExecutor (lines
\* 125-128, 896-906): the streaming state of the audio executor advances.
\* The handle takes audio_executor_mutex_, never executor_mutex_.
Encode ==
    /\ audio_executor_ < MaxAudio
    /\ audio_executor_' = audio_executor_ + 1
    /\ UNCHANGED audio_context

\* Lines 817-838, after the executor was switched from current_handler_ to
\* new: the snapshot of the audio executor goes to the current handler, the
\* clone of new's audio context into the audio executor; both inside
\* if (current_handler_ != nullptr).
AudioSwitch(new) ==
    LET cur == current_handler_
        saved == IF cur # 0 /\ HasAudioContext(cur)
                 THEN [audio_context EXCEPT ![cur] = audio_executor_]
                 ELSE audio_context
    IN  [audio_context |-> saved,
         audio_executor_ |-> IF cur # 0 /\ HasAudioContext(new)
                             THEN saved[new]
                             ELSE audio_executor_]

\* AcquireExecutorWithContextHandler with its audio step: the step is not
\* reached on the shortcut of lines 688-693 nor after a failed switch.
AcquireWithAudio(t, new) ==
    /\ AcquireExecutorWithContextHandler(t, new)
    /\ LET a == IF lastOp'.ok /\ ~SameHandler(new)
                THEN AudioSwitch(new)
                ELSE [audio_context |-> audio_context,
                      audio_executor_ |-> audio_executor_]
       IN  /\ audio_context' = a.audio_context
           /\ audio_executor_' = a.audio_executor_

\* CreateContextHandler, lines 549-562: the audio context of a new handler
\* is audio_executor->CreateNewContext().
CreateWithAudio(audio) ==
    /\ CreateContextHandlerFor(audio)
    /\ audio_context' =
           [audio_context EXCEPT ![numHandlers + 1] = NewAudioContext]
    /\ UNCHANGED audio_executor_

\* CloneContextHandler, lines 612-616: audio_context_ref.Clone().
CloneWithAudio(src) ==
    /\ CloneContextHandlerOf(src)
    /\ audio_context' =
           [audio_context EXCEPT ![numHandlers + 1] = audio_context[src]]
    /\ UNCHANGED audio_executor_

InitAU ==
    /\ audio_executor_ = NewAudioContext
    /\ audio_context = [h \in Handlers |-> NewAudioContext]

\* ============================================================ LoRA id map
VARIABLES
    lora_hash_to_id_,   \* the id of every key, NoLoraId for a key not in it
    lora_call,          \* per thread, the AssignLoraId call in progress
    lora_ids            \* the ids AssignLoraId has returned, oldest first

loVars == <<lora_hash_to_id_, lora_call, lora_ids>>

NoLoraId == -1

\* The LoRA paths of the session configs; "" is no path.
LoraPaths == {"", "a"}

\* "scoped_lora:" + absl::StrCat(size), line 491.
ScopedKey(size) ==
    <<"scoped_lora:0", "scoped_lora:1", "scoped_lora:2", "scoped_lora:3",
      "scoped_lora:4", "scoped_lora:5">>[size + 1]

LoraKeys == (LoraPaths \ {""}) \cup {ScopedKey(n) : n \in 0..MaxLora}

\* lora_hash_to_id_.size()
LoraMapSize(map) == Cardinality({k \in LoraKeys : map[k] # NoLoraId})

NoLoraCall == [pc |-> "idle", caller |-> "none", lora_path |-> "",
               has_scoped_lora_file |-> FALSE, size |-> 0, found |-> FALSE,
               lora_id |-> NoLoraId]

\* AssignLoraId, lines 468-495, first half: nothing for a session without
\* LoRA (470-472); else lora_hash_to_id_.find(lora_path) (480) and
\* lora_hash_to_id_.size() (482, 490). No lock is held: CreateContextHandler
\* calls it at 523 and takes executor_mutex_ only at 533 and 542.
AssignLoraIdRead(t, caller, lora_path, has_scoped_lora_file) ==
    /\ lora_call[t].pc = "idle"
    /\ Len(lora_ids)
           + Cardinality({u \in Threads : lora_call[u].pc = "read"})
           < MaxLora
    /\ lora_call' = [lora_call EXCEPT ![t] =
           [pc |-> IF lora_path = "" /\ ~has_scoped_lora_file
                   THEN "assigned" ELSE "read",
            caller |-> caller,
            lora_path |-> lora_path,
            has_scoped_lora_file |-> has_scoped_lora_file,
            size |-> LoraMapSize(lora_hash_to_id_),
            found |-> /\ lora_path # ""
                      /\ lora_hash_to_id_[lora_path] # NoLoraId,
            lora_id |-> NoLoraId]]
    /\ UNCHANGED <<lora_hash_to_id_, lora_ids>>

\* The key and id the second half of AssignLoraId writes: the size read
\* before, under the path (482) or under the scoped key (490-492); the id
\* returned for a path is read back from the map (484).
LoraWrite(c, map) ==
    LET key == IF c.lora_path # "" THEN c.lora_path ELSE ScopedKey(c.size)
        written == IF c.lora_path # "" /\ c.found
                   THEN map
                   ELSE [map EXCEPT ![key] = c.size]
    IN  [key |-> key, map |-> written, lora_id |-> written[key]]

\* AssignLoraId, second half.
AssignLoraIdWrite(t) ==
    /\ lora_call[t].pc = "read"
    /\ LET c == lora_call[t]
           w == LoraWrite(c, lora_hash_to_id_)
       IN  /\ lora_hash_to_id_' = w.map
           /\ lora_ids' = Append(lora_ids,
                                 [key |-> w.key, lora_id |-> w.lora_id,
                                  path |-> c.lora_path # ""])
           /\ lora_call' = [lora_call EXCEPT
                               ![t].pc = "assigned",
                               ![t].lora_id = w.lora_id]

\* AssignLoraId called on its own has returned.
AssignLoraIdReturn(t) ==
    /\ lora_call[t].pc = "assigned"
    /\ lora_call[t].caller = "AssignLoraId"
    /\ lora_call' = [lora_call EXCEPT ![t] = NoLoraCall]
    /\ UNCHANGED <<lora_hash_to_id_, lora_ids>>

\* CreateContextHandler, lines 510-527: lora_is_loaded and AssignLoraId with
\* the empty path, outside any lock.
CreateContextHandlerBegin(t, has_scoped_lora_file) ==
    AssignLoraIdRead(t, "CreateContextHandler", "", has_scoped_lora_file)

\* CreateContextHandler, lines 528-565: LoadLoRA and CreateNewContext under
\* executor_mutex_, then the handler.
CreateContextHandlerEnd(t) ==
    /\ lora_call[t].pc = "assigned"
    /\ lora_call[t].caller = "CreateContextHandler"
    /\ CreateContextHandler
    /\ lora_call' = [lora_call EXCEPT ![t] = NoLoraCall]
    /\ UNCHANGED <<lora_hash_to_id_, lora_ids>>

InitLO ==
    /\ lora_hash_to_id_ = [k \in LoraKeys |-> NoLoraId]
    /\ lora_call = [t \in Threads |-> NoLoraCall]
    /\ lora_ids = <<>>

\* The variables added for the construction, the message queue, the audio
\* executor and the LoRA id map.
xVars == <<cmVars, miVars, auVars, loVars>>

InitX == InitCM /\ InitMI /\ InitAU /\ InitLO

\* The variables outside the session interface, and all those outside the
\* resource manager and the execution manager.
otherVars == <<tkVars, rgVars, faVars, xVars>>
auxVars == <<saVars, otherVars>>

InitAux == InitSA /\ InitTK /\ InitRG /\ InitFA /\ InitX

\* ------------------------------------------------------ specifications
vars == <<rmVars, emVars, auxVars>>

Init == InitRM /\ InitEM /\ InitAux /\ apply_prompt_template = FALSE

\* The resource manager driven directly through its interface.
Next ==
    \/ CreateContextHandler /\ UNCHANGED <<emVars, auxVars>>
    \/ \E src \in Handlers : CloneContextHandler(src) /\ UNCHANGED <<emVars, auxVars>>
    \/ \E t \in Threads : AcquireExecutor(t) /\ UNCHANGED <<emVars, auxVars>>
    \/ \E t \in Threads, new \in Handlers :
           AcquireExecutorWithContextHandler(t, new) /\ UNCHANGED <<emVars, auxVars>>
    \/ \E t \in Threads : ReleaseExecutor(t) /\ UNCHANGED <<emVars, auxVars>>
    \/ \E t \in Threads, I \in TokenSeqs(MaxInput), ps \in PrefillSteps :
           Prefill(t, I, ps) /\ Len(ex'.tokens) <= MaxLen /\ UNCHANGED <<emVars, auxVars>>
    \/ \E t \in Threads, tok \in Vocab :
           Decode(t, tok) /\ Len(ex'.tokens) <= MaxLen /\ UNCHANGED <<emVars, auxVars>>

Spec == Init /\ [][Next]_vars

\* The resource manager driven by one thread with the inputs of the
\* end-to-end scenarios S3 and S4: the prompts [1,2,3] and [10,20,30], their
\* continuations, and the sampled tokens a = 4, b = 5, c = 6 (d = 7).
ScenarioInputs ==
    {<<1, 2, 3>>, <<1, 2, 3, 4, 5, 7>>, <<10, 20, 30>>, <<10, 20, 30, 40>>}

\* The scenario's sampler yields a after 3 tokens, b after 4 and c after 5.
ScenarioSampled == {4, 5, 6}

\* No step given, or a replay from step 0.
ScenarioSteps == {-1, 0}

NextScenario ==
    \/ CreateContextHandler /\ UNCHANGED <<emVars, auxVars>>
    \/ \E src \in Handlers : CloneContextHandler(src) /\ UNCHANGED <<emVars, auxVars>>
    \/ \E new \in Handlers :
           AcquireExecutorWithContextHandler("t1", new) /\ UNCHANGED <<emVars, auxVars>>
    \/ ReleaseExecutor("t1") /\ UNCHANGED <<emVars, auxVars>>
    \/ \E I \in ScenarioInputs, ps \in ScenarioSteps :
           /\ Prefill("t1", I, ps)
           /\ Len(ex'.tokens) <= ScenarioLen
           /\ UNCHANGED <<emVars, auxVars>>
    \/ \E tok \in ScenarioSampled :
           /\ tok = ex.step + 1
           /\ Decode("t1", tok)
           /\ Len(ex'.tokens) <= ScenarioLen
           /\ UNCHANGED <<emVars, auxVars>>

SpecScenario == Init /\ [][NextScenario]_vars

\* The sessions and the execution manager.
NextTasks ==
    \/ \E s \in Sessions : RunPrefillAsync(s) /\ UNCHANGED <<rmVars, auxVars>>
    \/ \E s \in Sessions : RunDecodeAsync(s) /\ UNCHANGED <<rmVars, auxVars>>
    \/ \E s \in Sessions : RunTextScoringAsync(s) /\ UNCHANGED <<rmVars, auxVars>>
    \/ \E s \in Sessions, dst \in Sessions :
           CloneAsync(s, dst) /\ UNCHANGED <<rmVars, auxVars>>
    \/ \E id \in TaskIds : Cancel(id) /\ UNCHANGED <<rmVars, auxVars>>
    \/ \E start_ok \in BOOLEAN : StartTask(start_ok) /\ UNCHANGED <<rmVars, auxVars>>
    \/ \E result \in {"Done", "Failed", "Cancelled"} :
           FinishTask(result) /\ UNCHANGED <<rmVars, auxVars>>
    \/ RunCallback /\ UNCHANGED <<rmVars, auxVars>>

\* The session configuration is an input of the run.
InitTasks ==
    InitRM /\ InitEM /\ InitAux /\ apply_prompt_template \in BOOLEAN

SpecTasks == InitTasks /\ [][NextTasks]_vars

\* The worker threads of the execution manager and TaskController::Cancel.
Workers ==
    \/ \E id \in TaskIds : Cancel(id) /\ UNCHANGED <<rmVars, auxVars>>
    \/ \E start_ok \in BOOLEAN :
           StartTask(start_ok) /\ UNCHANGED <<rmVars, auxVars>>
    \/ \E result \in {"Done", "Failed", "Cancelled"} :
           FinishTask(result) /\ UNCHANGED <<rmVars, auxVars>>
    \/ OtherCallback /\ UNCHANGED <<rmVars, otherVars>>

\* The asynchronous session interface as a caller sees it.
NextSession ==
    \/ \E s \in Sessions :
           SessionRunPrefillAsync(s) /\ UNCHANGED <<rmVars, otherVars>>
    \/ \E s \in Sessions :
           SessionRunDecodeAsync(s) /\ UNCHANGED <<rmVars, otherVars>>
    \/ \E s \in Sessions :
           SessionRunTextScoringAsync(s) /\ UNCHANGED <<rmVars, otherVars>>
    \/ \E s \in Sessions, dst \in Sessions :
           SessionCloneAsync(s, dst) /\ UNCHANGED <<rmVars, otherVars>>
    \/ ManagerExpires /\ UNCHANGED <<rmVars, otherVars>>
    \/ Workers

SpecSession == InitTasks /\ [][NextSession]_vars

\* GenerateContentStream next to the two operations it is composed of.
NextStream ==
    \/ \E s \in Sessions :
           GenerateContentStream(s) /\ UNCHANGED <<rmVars, otherVars>>
    \/ \E s \in Sessions :
           SessionRunPrefillAsync(s) /\ UNCHANGED <<rmVars, otherVars>>
    \/ \E s \in Sessions :
           SessionRunDecodeAsync(s) /\ UNCHANGED <<rmVars, otherVars>>
    \/ ManagerExpires /\ UNCHANGED <<rmVars, otherVars>>
    \/ PrefillCallback /\ UNCHANGED <<rmVars, otherVars>>
    \/ Workers

SpecStream == InitTasks /\ [][NextStream]_vars

\* The synchronous wrappers.
NextSync ==
    \/ \E s \in Sessions : RunPrefill(s) /\ UNCHANGED <<rmVars, otherVars>>
    \/ \E s \in Sessions : RunDecode(s) /\ UNCHANGED <<rmVars, otherVars>>
    \/ \E s \in Sessions :
           RunTextScoring(s) /\ UNCHANGED <<rmVars, otherVars>>
    \/ \E s \in Sessions, dst \in Sessions :
           Clone(s, dst) /\ UNCHANGED <<rmVars, otherVars>>
    \/ WaitUntilDone /\ UNCHANGED <<rmVars, otherVars>>
    \/ WaitTimesOut /\ UNCHANGED <<rmVars, otherVars>>
    \/ Workers

\* The manager is there during the run, or was gone before it.
InitSync ==
    /\ InitRM /\ InitEM /\ InitTK /\ InitRG /\ InitFA /\ InitX
    /\ apply_prompt_template \in BOOLEAN
    /\ execution_manager_ \in {"alive", "expired"}
    /\ stream_callback = [id \in TaskIds |-> "none"]
    /\ returned = NoCall
    /\ waiting = NotWaiting

SpecSync == InitSync /\ [][NextSync]_vars

\* ------------------------------------------------------------ ownership
\* The two handler states of the ownership rule.
Suspended(h) ==
    /\ HasRuntimeConfig(h)
    /\ HasRuntimeState(h)
    /\ HasProcessedContext(handler[h].spc)

Active(h) ==
    /\ ~HasRuntimeConfig(h)
    /\ ~HasRuntimeState(h)
    /\ ~HasProcessedContext(handler[h].spc)

\* The handler's runtime config and state are resident in the executor.
Loaded(h) == ~HasRuntimeConfig(h) /\ ~HasRuntimeState(h)

\* The handler holds its own runtime config and runtime state.
Parked(h) == HasRuntimeConfig(h) /\ HasRuntimeState(h)

\* The handler shares its SharedProcessedContext with the current handler.
SharesLoadedContext(h) ==
    /\ current_handler_ # 0
    /\ handler[h].spc = handler[current_handler_].spc

Holders == {t \in Threads : locked[t] # <<>>}

\* C3: at most one LockedLlmExecutor exists at any time, and its holder is
\* the thread that holds executor_mutex_; an acquisition is enabled only when
\* the mutex is free (it blocks otherwise).
C3_MutualExclusion ==
    /\ Cardinality(Holders) <= 1
    /\ \A t \in Threads : locked[t] # <<>> <=> executor_mutex_ = t
    /\ executor_mutex_ # "free" =>
          \A t \in Threads, new \in Handlers :
              /\ ~ENABLED AcquireExecutor(t)
              /\ ~ENABLED AcquireExecutorWithContextHandler(t, new)

\* A handle is held by one thread after an operation through it, while a
\* handler exists that the other thread could ask for.
C3_Witness ==
    /\ locked["t1"] # <<>>
    /\ locked["t2"] = <<>>
    /\ numHandlers = 2
    /\ lastOp.op = "Prefill"
    /\ lastOp.ok

\* -------------------------------------------------------- copy-on-write
\* The processed tokens of handler h's context: its SharedProcessedContext's
\* content, or the executor's when that context is the loaded one.
ContextOf(h) ==
    IF HasProcessedContext(handler[h].spc)
    THEN spcInner[handler[h].spc][1] ELSE ex.tokens

\* The processed tokens below handler h's current step.
KeptPrefix(h) ==
    SubSeq(ContextOf(h), 1, Min2(StepOf(h), Len(ContextOf(h))))

Siblings(h) == HandlersOf(handler[h].spc) \ {h}

\* The operation of this step moved the executor to a step before the end of
\* its processed tokens and then changed them.
TruncatingStep ==
    /\ lastOp'.op \in {"Prefill", "Decode"}
    /\ lastOp'.ok
    /\ Len(lastOp'.calls) = 2
    /\ lastOp'.calls[1].fn = "SetCurrentStep"

\* C4: a Prefill or Decode through the handle of the current handler leaves
\* the processed tokens below every other handler's current step unchanged;
\* and when it changes the executor's tokens from a step that is smaller than
\* the step of a handler sharing the SharedProcessedContext, the executor's
\* tokens as they were are first stored in that SharedProcessedContext, the
\* siblings stay attached to it, and the current handler moves to a new,
\* empty SharedProcessedContext.
C4_CopyOnWrite ==
    [][lastOp'.op \in {"Prefill", "Decode"} =>
          LET cur == current_handler_
          IN  /\ \A h \in Live \ {cur} : KeptPrefix(h)' = KeptPrefix(h)
              /\ (/\ TruncatingStep
                  /\ \E h \in Siblings(cur) :
                         StepOf(h) > lastOp'.calls[1].step)
                 => /\ lastOp'.sep
                    /\ handler'[cur].spc # handler[cur].spc
                    /\ spcInner'[handler[cur].spc] = <<ex.tokens>>
                    /\ spcInner'[handler'[cur].spc] = <<>>
                    /\ \A h \in Live \ {cur} : handler'[h] = handler[h]]_vars

\* A clone sits at a later step of a shared context; the current handler has
\* just been detached and has changed its own tokens below that step.
C4_Witness ==
    /\ numHandlers = 2
    /\ current_handler_ \in Live
    /\ lastOp.op \in {"Prefill", "Decode"}
    /\ lastOp.sep
    /\ lastOp.ok
    /\ \E h \in Live \ {current_handler_} :
          /\ handler[h].spc # handler[current_handler_].spc
          /\ StepOf(h) = Len(ContextOf(h))
          /\ \E i \in 1..StepOf(h) :
                 i <= Len(ex.tokens) /\ ex.tokens[i] # ContextOf(h)[i]

\* ------------------------------------------------------ swap round trip
\* This step takes handler A out of the executor, leaves it out, or loads it.
SwitchOutOf(A) == current_handler_ = A /\ current_handler_' # A
StaysParked(A) == current_handler_ # A /\ current_handler_' # A
SwitchInto(A) == current_handler_ # A /\ current_handler_' = A

\* What the executor holds is stored for A when A is switched out.
SavedOnSwitchOut(A) ==
    /\ handler'[A].cfg = <<ex.cfg>>
    /\ handler'[A].st = <<RuntimeState(ex.step, ex.ran)>>
    /\ ContextOf(A)' = ex.tokens

\* What is stored for A is what the executor holds once A is switched in.
RestoredOnSwitchIn(A) ==
    /\ ex'.cfg = handler[A].cfg[1]
    /\ ex'.step = handler[A].st[1].current_step
    /\ ex'.ran = handler[A].st[1].ran_decode
    /\ ex'.tokens = ContextOf(A)

\* C11 as stated: what is stored for a handler that is not loaded, processed
\* tokens included, is never changed by a step that leaves it unloaded, so
\* that the executor holds exactly P, C and R again when it is re-acquired.
\* Refuted by a Prefill or Decode of a handler on the same
\* SharedProcessedContext.
C11_SwapRoundTripAsStated ==
    [][\A A \in Live :
          /\ SwitchOutOf(A) => SavedOnSwitchOut(A)
          /\ StaysParked(A) =>
                /\ handler'[A].cfg = handler[A].cfg
                /\ handler'[A].st = handler[A].st
                /\ ContextOf(A)' = ContextOf(A)
          /\ SwitchInto(A) => RestoredOnSwitchIn(A)]_vars

\* C11: switching A out stores the executor's runtime config, runtime state
\* and processed tokens for A; while A stays out its runtime config and
\* runtime state do not change and its processed tokens do not change below
\* its current step, and not at all in a step where A does not share its
\* SharedProcessedContext with the loaded handler; switching A in puts
\* exactly the stored runtime config, runtime state and processed tokens into
\* the executor.
C11_SwapRoundTrip ==
    [][\A A \in Live :
          /\ SwitchOutOf(A) => SavedOnSwitchOut(A)
          /\ StaysParked(A) =>
                /\ handler'[A].cfg = handler[A].cfg
                /\ handler'[A].st = handler[A].st
                /\ KeptPrefix(A)' = KeptPrefix(A)
                /\ ~SharesLoadedContext(A) => ContextOf(A)' = ContextOf(A)
          /\ SwitchInto(A) => RestoredOnSwitchIn(A)]_vars

\* Handler 1 has just been restored with its tokens at a step past 0 while
\* handler 2, on a context of its own with tokens of its own, is stored.
C11_Witness ==
    /\ numHandlers = 2
    /\ current_handler_ = 1
    /\ lastOp.op = "Acquire"
    /\ lastOp.ok
    /\ \E i \in 1..Len(lastOp.calls) : lastOp.calls[i].fn = "RestoreContext"
    /\ ex.tokens # <<>>
    /\ ex.step > 0
    /\ handler[2].spc # handler[1].spc
    /\ HasProcessedContext(handler[2].spc)
    /\ spcInner[handler[2].spc][1] # <<>>
    /\ spcInner[handler[2].spc][1] # ex.tokens

\* ---------------------------------------------------------------- clone
\* C12: CloneContextHandler(src) adds one handler that references src's
\* SharedProcessedContext and holds a runtime config and a runtime state equal
\* to src's: the stored ones when src is not the current handler, the
\* executor's when it is. The current handler, the executor's context, every
\* SharedProcessedContext, every existing handler (src included) and the
\* executor handles stay as they were.
C12_CloneFrame ==
    [][\A src \in Handlers :
          CloneContextHandler(src) =>
              LET n == numHandlers + 1
                  active == src = current_handler_
              IN  /\ numHandlers' = n
                  /\ handler'[n].spc = handler[src].spc
                  /\ handler'[n].cfg =
                         IF active THEN <<ex.cfg>> ELSE handler[src].cfg
                  /\ handler'[n].st =
                         IF active THEN <<RuntimeState(ex.step, ex.ran)>>
                         ELSE handler[src].st
                  /\ \A h \in Live : handler'[h] = handler[h]
                  /\ current_handler_' = current_handler_
                  /\ ex' = ex
                  /\ spcInner' = spcInner
                  /\ locked' = locked]_vars

\* Handler 1 has just been cloned while it is loaded at a step past 0.
C12_Witness ==
    /\ lastOp.op = "Clone"
    /\ numHandlers = 2
    /\ current_handler_ = 1
    /\ handler[2].spc = handler[1].spc
    /\ StepOf(2) = StepOf(1)
    /\ StepOf(1) > 0

\* ----------------------------------------------------------- swap count
\* How many of the calls are calls of executor function fn.
CountCalls(calls, fn) == Len(SelectSeq(calls, LAMBDA c : c.fn = fn))

\* Handler h would be installed as a fresh context (lines 783-789).
IsFreshContext(h) ==
    /\ ContextOf(h) = <<>>
    /\ StepOf(h) = 0
    /\ ~handler[h].st[1].ran_decode

\* C16: acquiring the executor for the current handler makes no executor
\* call and changes no handler, no SharedProcessedContext and nothing in the
\* executor. Acquiring it for a handler B on another SharedProcessedContext
\* than the current handler A makes exactly one CloneContext call, whose
\* result is stored for A, and installs B with one CreateNewContext and one
\* RestoreContext when B is fresh, with one RestoreContext and no
\* CreateNewContext otherwise.
C16_SwapCount ==
    [][\A t \in Threads, B \in Handlers :
          AcquireExecutorWithContextHandler(t, B) =>
              LET A == current_handler_
                  calls == lastOp'.calls
              IN  /\ B = A =>
                        /\ calls = <<>>
                        /\ lastOp'.ok
                        /\ locked'[t] = <<B>>
                        /\ handler' = handler
                        /\ spcInner' = spcInner
                        /\ ex' = ex
                  /\ (A # 0 /\ B # A /\ handler[B].spc # handler[A].spc) =>
                        /\ lastOp'.ok
                        /\ CountCalls(calls, "CloneContext") = 1
                        /\ spcInner'[handler[A].spc] = <<ex.tokens>>
                        /\ handler'[A].st = <<RuntimeState(ex.step, ex.ran)>>
                        /\ CountCalls(calls, "RestoreContext") = 1
                        /\ CountCalls(calls, "CreateNewContext") =
                               IF IsFreshContext(B) THEN 1 ELSE 0
                        /\ ex'.tokens = ContextOf(B)]_vars

\* Handler 1 has been swapped back in, with one save and one restore, after
\* handler 2 had been installed on a context of its own.
C16_Witness ==
    /\ numHandlers = 2
    /\ current_handler_ = 1
    /\ lastOp.op = "Acquire"
    /\ lastOp.ok
    /\ lastOp.calls = <<Call("CloneContext", <<>>, -1),
                        Call("RestoreContext", <<>>, ex.step)>>
    /\ ex.tokens # <<>>
    /\ handler[2].spc # handler[1].spc
    /\ spcInner[handler[2].spc] # <<>>
    /\ spcInner[handler[2].spc][1] # <<>>

\* ------------------------------------------------------ prefix matching
\* The length of the longest common prefix of P[s..] and I.
RECURSIVE CommonPrefixLen(_, _, _)
CommonPrefixLen(P, s, I) ==
    IF I = <<>> \/ s >= Len(P) \/ P[s + 1] # Head(I) THEN 0
    ELSE 1 + CommonPrefixLen(P, s + 1, Tail(I))

\* The executor Prefill calls among a sequence of calls.
PrefillCalls(calls) == SelectSeq(calls, LAMBDA c : c.fn = "Prefill")

\* C9: a Prefill through a handler-bound handle with non-empty input I,
\* executor tokens P and effective step s (the given step if any, else the
\* executor's, clamped to |P|): if s = |P| the executor's Prefill receives I
\* unchanged; otherwise with k the longest common prefix of P[s..] and I, the
\* executor's Prefill is called exactly when k < |I|, once, with the tokens
\* I[k..] at step s + k; when k = |I| there is no Prefill call and the
\* executor's step becomes s + k. Stated for every input the handle can be
\* given in the current state; the handle's operations are never refused.
C9_PrefixMatch ==
    \A t \in Threads :
        Bound(t) =>
            /\ ~SeparationRefused(locked[t][1])
            /\ \A I \in TokenSeqs(MaxInput) \ {<<>>}, ps \in PrefillSteps :
                  LET P == ex.tokens
                      given == IF ps # -1 THEN ps ELSE ex.step
                      s == Min2(given, Len(P))
                      k == CommonPrefixLen(P, s, I)
                      plan == PrefillPlan(P, ex.step, I, ps,
                                  LongestHandlerTimeStep(
                                      handler[locked[t][1]].spc))
                      sent == PrefillCalls(plan.calls)
                      after == ExecCalls(ex, plan.calls)
                  IN  IF s = Len(P)
                      THEN Len(sent) = 1 /\ sent[1].toks = I
                      ELSE IF k < Len(I)
                      THEN /\ Len(sent) = 1
                           /\ sent[1].toks = SubSeq(I, k + 1, Len(I))
                           /\ sent[1].step = s + k
                      ELSE /\ sent = <<>>
                           /\ after.ok
                           /\ after.step = s + k

\* The whole input was found in the processed tokens: the executor was only
\* moved to a step before the end of its tokens.
C9_Witness ==
    /\ lastOp.op = "Prefill"
    /\ lastOp.ok
    /\ Len(lastOp.calls) = 1
    /\ lastOp.calls[1].fn = "SetCurrentStep"
    /\ ex.step = lastOp.calls[1].step
    /\ 0 < ex.step
    /\ ex.step < Len(ex.tokens)

\* ------------------------------------------------------------ step bound
\* A call that carries a step; a Prefill with step -1 carries none.
CarriesStep(c) ==
    c.fn \in {"SetCurrentStep", "Prefill", "RestoreContext",
              "UpdateRuntimeState"} /\ c.step # -1

\* C10: every handler's current step lies within its processed tokens, and
\* no executor call made by a context switch or by a Prefill through a
\* handler-bound handle carries a step outside [0, token count].
C10_StepBound ==
    /\ \A h \in Live : 0 <= StepOf(h) /\ StepOf(h) <= Len(ContextOf(h))
    /\ \A i \in 1..Len(lastOp.calls) :
          CarriesStep(lastOp.calls[i]) =>
              /\ 0 <= lastOp.calls[i].step
              /\ lastOp.calls[i].step <= lastOp.tc

\* ================================================================ tasks
Submitted == 1..next_task_id_

\* A callable for task id is still waiting on the callback worker.
CallbackPending(id) ==
    \E i \in 1..Len(callback_thread_pool_) :
        callback_thread_pool_[i].task = id

\* The task is in an end state and nothing more will be done for it.
Settled(id) ==
    /\ IsTaskEndState(task_lookup_[id].state)
    /\ ~CallbackPending(id)

\* C5: the callback of every submitted task is invoked at most once, an
\* invocation carries an end state, and once the task is in an end state and
\* no callable of it is left on the callback worker the callback has been
\* invoked exactly once.
C5_CallbackExactlyOnce ==
    \A id \in Submitted :
        /\ task_lookup_[id].invoked <= 1
        /\ task_lookup_[id].invoked = 1 =>
               IsTaskEndState(task_lookup_[id].reported)
        /\ Settled(id) => task_lookup_[id].invoked = 1

\* C6: a task runs only when all its dependencies are in an end state, and
\* whenever the callback of a task is invoked, every dependency of the task
\* is in an end state and has had its own callback invoked before.
C6_DependencyOrder ==
    /\ [](\A id \in Submitted :
             task_lookup_[id].state = "Running" =>
                 \A d \in task_lookup_[id].deps :
                     IsTaskEndState(task_lookup_[d].state))
    /\ [][\A id \in TaskIds :
             task_lookup_'[id].invoked > task_lookup_[id].invoked =>
                 \A d \in task_lookup_'[id].deps :
                     /\ IsTaskEndState(task_lookup_[d].state)
                     /\ task_lookup_[d].invoked >= 1]_vars

\* C7: in every submission the first new task declares the session's
\* last_task_ids_ as they were, every further task of the same call declares
\* the one before it, and afterwards the session's last_task_ids_ is the
\* singleton of the last new task.
C7_TaskChaining ==
    [][next_task_id_' > next_task_id_ =>
          LET first == next_task_id_ + 1
              last == next_task_id_'
              s == task_lookup_'[last].session
          IN  /\ task_lookup_'[first].deps = last_task_ids_[s]
              /\ \A id \in (first + 1)..last :
                     task_lookup_'[id].deps = {id - 1}
              /\ last_task_ids_'[s] = {last}]_vars

\* C8: once a task has ended Failed, Cancelled, DependentTaskFailed or
\* DependentTaskCancelled and its callback has been dealt with, it is no
\* longer among its session's last_task_ids_, and no task submitted after that
\* ends DependentTaskFailed or DependentTaskCancelled because of it.
C8_LastTaskIdsReset ==
    \A s \in Sessions :
        \A d \in last_task_ids_[s] :
            ~(Settled(d) /\ task_lookup_[d].state # "Done")

\* ---------------------------------------------------------- clone_async
\* The clone-session tasks submitted so far.
CloneTasks == {id \in Submitted : task_lookup_[id].kind = "clone"}

\* C13: a CloneAsync step submits a clone task that declares the parent's
\* last_task_ids_, and leaves both the parent's and the new session's
\* last_task_ids_ equal to the singleton of that task; and a task of a cloned
\* session is Running only when the clone task is in an end state.
C13_CloneChained ==
    /\ [](\A id \in Submitted :
             (task_lookup_[id].state = "Running" /\ task_lookup_[id].session = 2)
                 => /\ CloneTasks # {}
                    /\ \A c \in CloneTasks :
                           IsTaskEndState(task_lookup_[c].state))
    /\ [][\A dst \in Sessions :
             (session_state_[dst] = "absent" /\ session_state_'[dst] # "absent")
                 => LET id == next_task_id_'
                        s == task_lookup_'[id].session
                    IN  /\ id = next_task_id_ + 1
                        /\ task_lookup_'[id].kind = "clone"
                        /\ task_lookup_'[id].deps = last_task_ids_[s]
                        /\ last_task_ids_'[dst] = {id}
                        /\ last_task_ids_'[s] = {id}]_vars

\* A task submitted on the clone session runs after the clone task is Done.
C13_Witness ==
    /\ running # 0
    /\ task_lookup_[running].session = 2
    /\ \E c \in CloneTasks :
          /\ task_lookup_[c].state = "Done"
          /\ c \in task_lookup_[running].deps

\* ============================================================ scenarios
\* What a Prefill of I with step ps through the handle of the current handler
\* would leave in the executor, and the executor calls it would make.
PrefillOutcome(I, ps) ==
    LET plan == PrefillPlan(ex.tokens, ex.step, I, ps,
                    LongestHandlerTimeStep(handler[current_handler_].spc))
    IN  [calls |-> plan.calls, separate |-> plan.separate,
         ex |-> ExecCalls(ex, plan.calls)]

\* ------------------------------------------------- S4, clone independence
\* The parent is handler 1, its clone handler 2.
S4_Prompt == <<1, 2, 3>>
S4_Parent == <<1, 2, 3, 4, 5, 6>>
S4_Clone == <<1, 2, 3, 4, 5, 7>>

\* The parent is loaded at the end of the first n tokens of its sequence and
\* h handlers exist.
S4_ParentAt(n, h) ==
    /\ numHandlers = h
    /\ current_handler_ = 1
    /\ ex.tokens = SubSeq(S4_Parent, 1, n)
    /\ ex.step = n

\* The clone exists, stored at step 5 on the parent's SharedProcessedContext.
S4_CloneStored ==
    /\ handler[2].spc = handler[1].spc
    /\ HasRuntimeState(2)
    /\ StepOf(2) = 5

\* The clone is loaded at step 5 of the parent's six tokens.
S4_CloneLoaded ==
    /\ numHandlers = 2
    /\ current_handler_ = 2
    /\ handler[2].spc = handler[1].spc
    /\ ex.tokens = S4_Parent
    /\ ex.step = 5
    /\ StepOf(1) = 6

\* The expected end: the two sequences in two distinct ProcessedContexts.
S4_Diverged ==
    /\ current_handler_ = 2
    /\ ex.tokens = S4_Clone
    /\ ex.step = 6
    /\ handler[1].spc # handler[2].spc
    /\ spcInner[handler[1].spc] = <<S4_Parent>>
    /\ StepOf(1) = 6

\* The steps of the scenario before the clone's prefill, each from the state
\* the one before it ends in, and none returning an error.
S4_Prefix(t) ==
    /\ (S4_ParentAt(0, 1) /\ Prefill(t, S4_Prompt, -1))
           => S4_ParentAt(3, 1)' /\ lastOp'.ok
    /\ (S4_ParentAt(3, 1) /\ Decode(t, 4)) => S4_ParentAt(4, 1)' /\ lastOp'.ok
    /\ (S4_ParentAt(4, 1) /\ Decode(t, 5)) => S4_ParentAt(5, 1)' /\ lastOp'.ok
    /\ (S4_ParentAt(5, 1) /\ CloneContextHandler(1))
           => S4_ParentAt(5, 2)' /\ S4_CloneStored'
    /\ (S4_ParentAt(5, 2) /\ S4_CloneStored /\ Decode(t, 6))
           => S4_ParentAt(6, 2)' /\ S4_CloneStored' /\ lastOp'.ok
    /\ (S4_ParentAt(6, 2) /\ S4_CloneStored
            /\ AcquireExecutorWithContextHandler(t, 2))
           => S4_CloneLoaded' /\ lastOp'.ok

\* C14 as stated: once the parent has decoded c and the clone is loaded, the
\* clone's prefill of [1,2,3,a,b,d] leaves the clone with exactly that
\* sequence whatever step it is given, the default (none) included.
C14_CloneIndependenceAsStated ==
    S4_CloneLoaded =>
        \A ps \in ScenarioSteps :
            /\ PrefillOutcome(S4_Clone, ps).ex.ok
            /\ PrefillOutcome(S4_Clone, ps).ex.tokens = S4_Clone

\* C14: the run ends as expected when the clone's prefill of [1,2,3,a,b,d]
\* is given current step 0, so that the five tokens it has in common with the
\* processed tokens are matched; with no step given the input is taken as new
\* tokens from the clone's step 5 on and does not fit in six tokens.
C14_CloneIndependence ==
    /\ [][\A t \in Threads :
             /\ S4_Prefix(t)
             /\ (S4_CloneLoaded /\ Prefill(t, S4_Clone, 0))
                    => S4_Diverged' /\ lastOp'.ok]_vars
    /\ [](S4_CloneLoaded =>
             LET o == PrefillOutcome(S4_Clone, -1)
             IN  /\ o.ex.ok
                 /\ o.separate
                 /\ o.ex.tokens = SubSeq(S4_Parent, 1, 5) \o S4_Clone)

\* The end of the scenario has been reached by the clone's prefill.
C14_Witness ==
    /\ S4_Diverged
    /\ lastOp.op = "Prefill"
    /\ lastOp.sep
    /\ lastOp.ok
    /\ lastOp.calls = <<Call("SetCurrentStep", <<>>, 5),
                        Call("Prefill", <<7>>, 5)>>

\* --------------------------------------------------------- S3, prefix match
S3_Processed == <<10, 20, 30>>
S3_Input == <<10, 20, 30, 40>>

\* A handle is bound to a session with processed tokens [10,20,30] at step 3.
S3_Session(t) ==
    /\ Bound(t)
    /\ ex.tokens = S3_Processed
    /\ ex.step = 3

\* Exactly one executor call, a Prefill of [40] at step 3; final step 4.
S3_Expected ==
    /\ lastOp'.calls = <<Call("Prefill", <<40>>, 3)>>
    /\ lastOp'.ok
    /\ ex'.tokens = S3_Input
    /\ ex'.step = 4

\* C15 as stated: the prefill of [10,20,30,40] is cut down to [40] whatever
\* step it is given, the default (none) included.
C15_PrefixMatchScenarioAsStated ==
    \A t \in Threads, ps \in ScenarioSteps :
        S3_Session(t) =>
            /\ PrefillOutcome(S3_Input, ps).calls = <<Call("Prefill", <<40>>, 3)>>
            /\ PrefillOutcome(S3_Input, ps).ex.step = 4

\* C15: the prefill of [10,20,30,40] is cut down to one executor Prefill of
\* [40] at step 3, with final step 4, when it is given current step 0; with
\* no step given the session is at the end of its tokens and the whole input
\* is forwarded at step 3, which ends at step 7.
C15_PrefixMatchScenario ==
    /\ [][\A t \in Threads :
             (S3_Session(t) /\ Prefill(t, S3_Input, 0)) => S3_Expected]_vars
    /\ [](\A t \in Threads :
             S3_Session(t) =>
                 LET o == PrefillOutcome(S3_Input, -1)
                 IN  /\ o.calls = <<Call("Prefill", S3_Input, -1)>>
                     /\ o.ex.ok
                     /\ o.ex.step = 7)

\* The prefill of the scenario has been made and was cut down to [40].
C15_Witness ==
    /\ lastOp.op = "Prefill"
    /\ lastOp.ok
    /\ lastOp.calls = <<Call("Prefill", <<40>>, 3)>>
    /\ ex.tokens = S3_Input
    /\ ex.step = 4

\* ------------------------------------------- S2, dependency cascade
\* The tasks submitted on session s.
TasksOf(s) == {id \in Submitted : task_lookup_[id].session = s}

\* P is a prefill that ended Cancelled and D a decode of the same session
\* that declares P and was not itself asked to cancel.
CancelledPrefillOf(P, D) ==
    /\ task_lookup_[P].kind = "prefill"
    /\ task_lookup_[P].state = "Cancelled"
    /\ task_lookup_[D].kind = "decode"
    /\ task_lookup_[D].session = task_lookup_[P].session
    /\ P \in task_lookup_[D].deps
    /\ ~task_lookup_[D].cancelled

\* C17: a task starts running only from Created, not cancelled, with all
\* its dependencies Done, so neither a prefill P cancelled before it started
\* nor a decode D that declares P ever reaches the executor; P's callback
\* reports Cancelled and D's callback DependentTaskCancelled; and once both
\* are settled, D being the last task of the session, the session's
\* last_task_ids_ is empty.
C17_DependencyCascade ==
    /\ [][\A id \in TaskIds :
             (task_lookup_'[id].state = "Running"
                  /\ task_lookup_[id].state # "Running")
                 => /\ task_lookup_[id].state = "Created"
                    /\ \A d \in task_lookup_[id].deps :
                           task_lookup_[d].state = "Done"]_vars
    /\ [](\A P \in Submitted, D \in Submitted :
             CancelledPrefillOf(P, D) =>
                 /\ task_lookup_[D].state \in
                        {"Created", "DependentTaskCancelled"}
                 /\ task_lookup_[P].invoked >= 1 =>
                        task_lookup_[P].reported = "Cancelled"
                 /\ task_lookup_[D].invoked >= 1 =>
                        task_lookup_[D].reported = "DependentTaskCancelled"
                 /\ (/\ Settled(P)
                     /\ Settled(D)
                     /\ \A id \in TasksOf(task_lookup_[D].session) : id <= D)
                        => last_task_ids_[task_lookup_[D].session] = {})

\* ---------------------------------------------------- task state machine
\* The task waits on the execution worker's queue (the Queued leg of the
\* state machine: its TaskInfo still says Created).
Queued(id) ==
    \E i \in 1..Len(execution_thread_pool_) : execution_thread_pool_[i] = id

\* The state changes of the state machine as stated.
StatedMove(id, from, to) ==
    \/ from = "none" /\ to \in {"Created", "DependentTaskFailed",
                                "DependentTaskCancelled"}
    \/ from = "Created" /\ to = "Running" /\ Queued(id)
    \/ from = "Created" /\ to \in {"Cancelled", "DependentTaskFailed",
                                   "DependentTaskCancelled"}
    \/ from = "Running" /\ to \in {"Done", "Failed", "Cancelled"}

C19_NoCallbackUnderMutex ==
    \A id \in Submitted : ~task_lookup_[id].under_mutex

\* ---------------------------------------------- failure-path completeness
\* C20: a callable scheduled for a task is the callback the caller supplied
\* for it, never an empty one, so that a task that has ended and has nothing
\* left on the callback worker has had that callback invoked.
C20_FailurePathCallback ==
    /\ \A i \in 1..Len(callback_thread_pool_) :
          callback_thread_pool_[i].callback =
              task_lookup_[callback_thread_pool_[i].task].callback
    /\ \A id \in Submitted :
          (Settled(id) /\ task_lookup_[id].state = "Failed")
              => task_lookup_[id].reported = "Failed"

\* ------------------------------------------------ GenerateContentStream
\* The prefill tasks GenerateContentStream submitted.
StreamPrefills == {p \in Submitted : task_lookup_[p].callback = "stream"}

\* C21: every GenerateContentStream call that returned OK gets its stream
\* callback invoked with an end outcome: while the prefill task is not
\* settled the callback is held, afterwards it has received the Cancelled
\* status or has been handed to a decode task; it is never destroyed
\* uninvoked, also not when the prefill ended Done and the chained
\* RunDecodeAsync returned an error.
C21_StreamCallbackDelivered ==
    \A p \in StreamPrefills :
        /\ stream_callback[p] # "dropped"
        /\ Settled(p) => stream_callback[p] \in {"Cancelled", "moved"}

\* In this step the lambda prefill_callback of task p is invoked with an end
\* state other than Done.
StreamPrefillEndsNotDone(p) ==
    /\ task_lookup_'[p].callback = "stream"
    /\ task_lookup_'[p].invoked > task_lookup_[p].invoked
    /\ task_lookup_'[p].reported # "Done"

DecodeTasks(lookup) == {id \in TaskIds : lookup[id].kind = "decode"}

\* C22: when the prefill of a GenerateContentStream call ends in an end
\* state other than Done, the stream callback receives the structured
\* Cancelled status, no decode task is submitted, and the session's
\* last_task_ids_ is empty afterwards.
C22_StreamPrefillNotDone ==
    [][\A p \in TaskIds :
          StreamPrefillEndsNotDone(p) =>
              /\ stream_callback'[p] = "Cancelled"
              /\ DecodeTasks(task_lookup_') = DecodeTasks(task_lookup_)
              /\ last_task_ids_'[task_lookup_'[p].session] = {}]_vars

\* -------------------------------------------------- session state machine
\* A step that is a call of the session interface: the callback worker's
\* queue is as it was, and a status was returned or a task submitted.
CallStep ==
    /\ callback_thread_pool_' = callback_thread_pool_
    /\ returned' # returned \/ next_task_id_' # next_task_id_

\* C23: a prefill call that returns OK leaves the session Prefilled whatever
\* its state was; a decode call returns OK only on a Prefilled session and
\* leaves it Decoded; on a Fresh or Decoded session it returns an error,
\* submits no task and leaves session_state_ and last_task_ids_ as they were.
C23_SessionStateMachine ==
    [][CallStep =>
          LET s == returned'.session
              op == returned'.op
              ok == returned'.status = "Ok"
          IN  /\ (op \in {"RunPrefillAsync", "GenerateContentStream"} /\ ok)
                     => session_state_'[s] = "Prefilled"
              /\ (op = "RunDecodeAsync" /\ ok) =>
                     /\ session_state_[s] = "Prefilled"
                     /\ session_state_'[s] = "Decoded"
              /\ (op = "RunDecodeAsync" /\ session_state_[s] # "Prefilled")
                     => /\ ~ok
                        /\ UNCHANGED <<next_task_id_, task_lookup_,
                                       execution_thread_pool_,
                                       session_state_, last_task_ids_>>]_vars

\* A decode call on a Decoded session was refused after the session had gone
\* Fresh -> Prefilled -> Decoded.
C23_Witness ==
    /\ returned.op = "RunDecodeAsync"
    /\ returned.status # "Ok"
    /\ session_state_[returned.session] = "Decoded"
    /\ \E id \in Submitted : task_lookup_[id].kind = "decode"

\* ------------------------------------------------------------- timeouts
\* In this step the wait of a synchronous wrapper ends before the task it
\* waits for is done.
TimeoutStep ==
    /\ waiting # NotWaiting
    /\ waiting' = NotWaiting
    /\ ~WaitFinished(waiting)

\* C26: a synchronous wrapper (RunPrefill, RunDecode, RunTextScoring, Clone)
\* whose wait times out returns DeadlineExceeded and does not cancel the
\* task: the task table, the two worker queues and the running task are as
\* they were.
C26_TimeoutDoesNotCancel ==
    [][TimeoutStep =>
          /\ returned' = Returned(waiting.op, waiting.session,
                                  "DeadlineExceeded")
          /\ UNCHANGED <<task_lookup_, execution_thread_pool_,
                         callback_thread_pool_, running>>]_vars

\* RunPrefill timed out and its task went on to end Done, its callback
\* invoked, without ever being cancelled.
C26_Witness ==
    /\ returned = Returned("RunPrefill", 1, "DeadlineExceeded")
    /\ next_task_id_ = 1
    /\ task_lookup_[1].state = "Done"
    /\ task_lookup_[1].invoked = 1
    /\ ~task_lookup_[1].cancelled

\* ---------------------------------------------------- FailedPrecondition
\* C27: a decode call on a session that is not Prefilled returns
\* FailedPrecondition, and every call made after the execution manager is
\* gone returns FailedPrecondition and leaves session_state_ and
\* last_task_ids_ as they were.
C27_FailedPrecondition ==
    [][CallStep =>
          LET s == returned'.session
              op == returned'.op
          IN  /\ (op = "RunDecodeAsync" /\ session_state_[s] # "Prefilled")
                     => returned'.status = "FailedPrecondition"
              /\ ~ManagerAvailable =>
                     /\ returned'.status = "FailedPrecondition"
                     /\ UNCHANGED <<session_state_, last_task_ids_>>]_vars

\* -------------------------------------------------------- TokenIdsToText
\* A tokenizer fed an id sequence of the caller's choosing, cut into calls
\* as the caller likes.
InitTokenizer ==
    /\ InitRM /\ InitEM /\ InitSA /\ InitRG /\ InitFA /\ InitX
    /\ apply_prompt_template = FALSE
    /\ pending \in UNION {[1..k -> TokenIds] : k \in 0..MaxIds}
    /\ fed = <<>>
    /\ tokenizer = TokenizerState(<<>>, 0)
    /\ text = <<>>
    /\ last_call = NoTokenizerCall

NextTokenizer ==
    \E n \in 0..MaxIds :
        TokenIdsToText(n) /\ UNCHANGED <<rmVars, emVars, saVars, rgVars, faVars, xVars>>

SpecTokenizer == InitTokenizer /\ [][NextTokenizer]_vars

\* The lead byte of a multi-byte code point.
IsLead(token_id) == IsByte(token_id) /\ GetUtf8Length(token_id) > 1

\* The parts of a text that were decoded from buffered byte tokens.
BufferedParts(t) ==
    {i \in 1..Len(t) : t[i].fn = "DecodeIds" /\
                       (Len(t[i].ids) > 1 \/ IsLead(t[i].ids[1]))}

\* C28: byte tokens of a multi-byte code point produce no text until as many
\* byte tokens as the lead byte announces have arrived, over any number of
\* calls: the buffer starts with a lead byte and is shorter than the chunk
\* the lead announces, a part decoded from the buffer starts with a lead
\* byte and has at least as many byte tokens as that lead announces, and the
\* buffer is empty after the call that decoded it. So the texts of the calls made so far,
\* concatenated, are the text one call with all the ids fed so far returns.
C28_StreamingSafe ==
    LET buffered == tokenizer.buffered_token_ids_
        chunk == tokenizer.size_of_token_chunk_
        once == DecodeLoop(TokenizerState(<<>>, 0), fed)
    IN  /\ buffered = <<>> => chunk = 0
        /\ buffered # <<>> =>
               /\ IsLead(buffered[1])
               /\ Len(buffered) < chunk
               /\ \A i \in 1..Len(buffered) : IsByte(buffered[i])
        /\ \A i \in BufferedParts(text) :
               /\ IsLead(text[i].ids[1])
               /\ Len(text[i].ids) >= GetUtf8Length(text[i].ids[1])
               /\ \A j \in 1..Len(text[i].ids) : IsByte(text[i].ids[j])
        /\ (Len(last_call.token_ids) = 1 /\ BufferedParts(last_call.text) # {})
               => buffered = <<>>
        /\ text = once.text
        /\ tokenizer = once.st

\* A call that got only the last byte token of a 3-byte code point, the rest
\* of which arrived in earlier calls, returned the code point.
C28_Witness ==
    /\ Len(last_call.before.buffered_token_ids_) = 2
    /\ last_call.before.size_of_token_chunk_ = 3
    /\ Len(last_call.token_ids) = 1
    /\ last_call.text = <<DecodeIds(fed)>>
    /\ Len(fed) = 3

\* ------------------------------------------------------ ResourceRegistry
\* The registry used by two threads that register, acquire, move and destroy.
NextRegistry ==
    \/ \E t \in Threads, id \in RegIds, type \in ResourceTypes,
          null \in BOOLEAN :
           /\ Register(t, id, type, null)
           /\ UNCHANGED <<rmVars, emVars, saVars, tkVars, faVars, xVars>>
    \/ \E t \in Threads, id \in RegIds, type \in ResourceTypes,
          into \in LockVars :
           /\ Acquire(t, id, type, into)
           /\ UNCHANGED <<rmVars, emVars, saVars, tkVars, faVars, xVars>>
    \/ \E t \in Threads :
           AcquireWakes(t) /\ UNCHANGED <<rmVars, emVars, saVars, tkVars, faVars, xVars>>
    \/ \E v \in LockVars :
           DestroyLock(v) /\ UNCHANGED <<rmVars, emVars, saVars, tkVars, faVars, xVars>>
    \/ \E other \in LockVars, to \in LockVars :
           /\ MoveConstruct(other, to)
           /\ UNCHANGED <<rmVars, emVars, saVars, tkVars, faVars, xVars>>
    \/ \E other \in LockVars, to \in LockVars :
           /\ MoveAssign(other, to)
           /\ UNCHANGED <<rmVars, emVars, saVars, tkVars, faVars, xVars>>

SpecRegistry == Init /\ [][NextRegistry]_vars

\* The lock objects that own the lock of resource id.
LockHolders(objects, id) == {v \in LockVars : objects[v].lock_ = id}

\* In this step the lock object other, which owns the lock of id, is moved
\* into the object to, by construction or by assignment.
LockMoved(other, to, id) ==
    /\ scoped[other].lock_ = id
    /\ MoveConstruct(other, to) \/ MoveAssign(other, to)

\* C29: for every resource id at most one lock object owns its lock, and the
\* node mutex is held exactly while one does; a lock is handed out only when
\* no object owns it, so an Acquire of a held id waits until the owner, which
\* may be an object the lock was moved into, is destroyed; a move leaves the
\* lock held and owned by exactly the target.
C29_ExclusiveAccess ==
    /\ [](\A id \in RegIds :
             /\ Cardinality(LockHolders(scoped, id)) <= 1
             /\ node_mu[id] = "held" <=> LockHolders(scoped, id) # {})
    /\ [][\A id \in RegIds :
             /\ \A t \in Threads :
                    (acquiring[t].id = id /\ acquiring'[t] = NotAcquiring) =>
                        /\ LockHolders(scoped, id) = {}
                        /\ LockHolders(scoped', id) = {acquiring[t].into}
             /\ \A t \in Threads :
                    (acquiring[t].id = id /\ LockHolders(scoped, id) # {}) =>
                        acquiring'[t] = acquiring[t]
             /\ \A other \in LockVars, to \in LockVars :
                    LockMoved(other, to, id) =>
                        /\ node_mu'[id] = "held"
                        /\ LockHolders(scoped', id) = {to}]_vars

\* A thread waits in Acquire for a resource whose lock was moved from the
\* object Acquire returned into another one.
C29_Witness ==
    /\ \E t \in Threads : acquiring[t].id = 1
    /\ scoped["lock"].live
    /\ scoped["lock"].lock_ = 0
    /\ scoped["lock1"].lock_ = 1

\* C30: Register with a null resource returns InvalidArgument; Register with
\* an id already present returns AlreadyExists; Acquire of an unknown id
\* returns NotFound; Acquire with another type than the registered one
\* returns InvalidArgument; and a call that returns an error leaves the
\* registered resources, every mutex and every lock object as they were.
C30_FailingCallsNoEffect ==
    [][registry_call' # registry_call =>
          LET c == registry_call'
              present == resources_[c.id] # "none"
          IN  /\ (c.op = "Register" /\ c.null) => c.status = "InvalidArgument"
              /\ (c.op = "Register" /\ ~c.null /\ present) =>
                     c.status = "AlreadyExists"
              /\ (c.op = "Acquire" /\ ~present) => c.status = "NotFound"
              /\ (c.op = "Acquire" /\ present /\ resources_[c.id] # c.type)
                     => c.status = "InvalidArgument"
              /\ c.status # "Ok" =>
                     UNCHANGED <<resources_, mu_, node_mu, scoped,
                                 acquiring>>]_vars

\* A second Register under an id in use, with a resource of another type,
\* was refused while the first resource was locked, and the first is still
\* registered and locked.
C30_Witness ==
    /\ registry_call.op = "Register"
    /\ registry_call.status = "AlreadyExists"
    /\ resources_[registry_call.id] # "none"
    /\ resources_[registry_call.id] # registry_call.type
    /\ node_mu[registry_call.id] = "held"

\* -------------------------------------------------- failing acquisitions
\* The resource manager driven by one thread through its interface while
\* executor calls of the context switch may fail.
NextFaults ==
    \/ \E audio \in BOOLEAN :
           CreateContextHandlerFor(audio)
               /\ UNCHANGED <<emVars, saVars, tkVars, rgVars, xVars>>
    \/ \E src \in Handlers :
           CloneContextHandlerOf(src)
               /\ UNCHANGED <<emVars, saVars, tkVars, rgVars, xVars>>
    \/ \E src \in Handlers :
           CloneContextHandlerRefused(src)
               /\ UNCHANGED <<emVars, saVars, tkVars, rgVars, xVars>>
    \/ \E new \in Handlers :
           AcquireExecutorWithContextHandler("t1", new)
               /\ UNCHANGED <<emVars, auxVars>>
    \/ \E new \in Handlers, at \in FaultPoints :
           AcquireFails("t1", new, at) /\ UNCHANGED <<emVars, auxVars>>
    \/ ReleaseExecutor("t1") /\ UNCHANGED <<emVars, auxVars>>
    \/ \E I \in TokenSeqs(MaxInput), ps \in PrefillSteps :
           Prefill("t1", I, ps) /\ Len(ex'.tokens) <= FaultLen
               /\ UNCHANGED <<emVars, auxVars>>
    \/ \E tok \in Vocab :
           Decode("t1", tok) /\ Len(ex'.tokens) <= FaultLen
               /\ UNCHANGED <<emVars, auxVars>>

SpecFaults == Init /\ [][NextFaults]_vars

\* C24: right after AcquireExecutorWithContextHandler has returned an error,
\* the resource manager is consistent: every live handler holds both its
\* runtime config and state or neither, the handler that holds neither (its
\* context is in the executor) is exactly the one recorded as current, and a
\* SharedProcessedContext is empty exactly when the current handler
\* references it.
C24_ErrorLeavesConsistent ==
    (lastOp.op = "Acquire" /\ ~lastOp.ok) =>
        \A h \in Live :
            /\ Parked(h) \/ Loaded(h)
            /\ Loaded(h) <=> h = current_handler_
            /\ HasProcessedContext(handler[h].spc) <=> ~SharesLoadedContext(h)

\* The handler owns a runtime config, a runtime state or a ProcessedContext.
OwnsArtifacts(h) ==
    HasRuntimeConfig(h) \/ HasRuntimeState(h)
        \/ HasProcessedContext(handler[h].spc)

\* The step made no executor call and changed no handler.
RefusedUntouched ==
    /\ ~lastOp'.ok
    /\ lastOp'.calls = <<>>
    /\ handler' = handler
    /\ spcInner' = spcInner
    /\ ex' = ex
    /\ numHandlers' = numHandlers

\* C25: (a) a Prefill or Decode that has to detach the loaded handler while
\* that handler owns a runtime config, a runtime state or a ProcessedContext
\* fails, makes no executor call and changes no handler; (b) an acquisition
\* for a handler other than the current one that lacks its runtime config or
\* runtime state fails, records no new current handler, hands out no handle
\* and leaves the executor's context as it was; (c) CloneContextHandler of a
\* source that lacks runtime config or state and is not the current handler
\* fails and creates no handler.
C25_ViolationsRefused ==
    [][ /\ \A t \in Threads :
              (Bound(t) /\ OwnsArtifacts(locked[t][1])) =>
                  LET largest ==
                          LongestHandlerTimeStep(handler[locked[t][1]].spc)
                  IN  /\ \A I \in TokenSeqs(MaxInput), ps \in PrefillSteps :
                            (/\ PrefillPlan(ex.tokens, ex.step, I, ps,
                                            largest).separate
                             /\ Prefill(t, I, ps))
                                => RefusedUntouched
                      /\ \A tok \in Vocab :
                            (/\ DecodePlan(ex.tokens, ex.step, tok,
                                           largest).separate
                             /\ Decode(t, tok))
                                => RefusedUntouched
        /\ \A t \in Threads, new \in Live :
              (/\ ~SameHandler(new)
               /\ ~(HasRuntimeConfig(new) /\ HasRuntimeState(new))
               /\ \/ AcquireExecutorWithContextHandler(t, new)
                  \/ \E at \in FaultPoints : AcquireFails(t, new, at))
                  => /\ ~lastOp'.ok
                     /\ current_handler_' = current_handler_
                     /\ locked' = locked
                     /\ ex' = ex
        /\ \A src \in Live :
              (/\ ~(HasRuntimeConfig(src) /\ HasRuntimeState(src))
               /\ src # current_handler_
               /\ \/ CloneContextHandlerOf(src)
                  \/ CloneContextHandlerRefused(src))
                  => RefusedUntouched
      ]_vars

\* A Prefill or Decode through the handle of a loaded handler that owns
\* artifacts was refused: it failed without an executor call.
C25_Witness ==
    /\ lastOp.op \in {"Prefill", "Decode"}
    /\ ~lastOp.ok
    /\ lastOp.calls = <<>>
    /\ \E t \in Threads : Bound(t) /\ OwnsArtifacts(locked[t][1])

\* ------------------------------------------------- manager construction
\* The executor's advertised thread count is an input of the run; the tasks
\* run on the manager ExecutionManager::Create has produced.
InitConstruct ==
    /\ InitRM /\ InitEM /\ InitSA /\ InitTK /\ InitRG /\ InitFA /\ InitMI
    /\ InitAU /\ InitLO
    /\ apply_prompt_template \in BOOLEAN
    /\ max_num_threads \in 1..MaxThreads
    /\ created = NotCreated

Constructed == created.status = "Ok"

NextConstruct ==
    \/ ExecutionManagerCreate
           /\ UNCHANGED <<rmVars, emVars, saVars, tkVars, rgVars, faVars,
                          miVars, auVars, loVars>>
    \/ \E s \in Sessions :
           Constructed /\ RunPrefillAsync(s) /\ UNCHANGED <<rmVars, auxVars>>
    \/ \E s \in Sessions :
           Constructed /\ RunDecodeAsync(s) /\ UNCHANGED <<rmVars, auxVars>>
    \/ \E id \in TaskIds :
           Constructed /\ Cancel(id) /\ UNCHANGED <<rmVars, auxVars>>
    \/ \E start_ok \in BOOLEAN :
           Constructed /\ StartTask(start_ok) /\ UNCHANGED <<rmVars, auxVars>>
    \/ \E result \in {"Done", "Failed", "Cancelled"} :
           Constructed /\ FinishTask(result) /\ UNCHANGED <<rmVars, auxVars>>
    \/ Constructed /\ RunCallback /\ UNCHANGED <<rmVars, auxVars>>

SpecConstruct == InitConstruct /\ [][NextConstruct]_vars

\* C31: a manager exists only for an executor that advertises one thread,
\* and its execution pool has one thread; for any other executor or pool
\* size the construction has failed.
C31_ConstructionRefused ==
    Constructed => max_num_threads = 1 /\ created.execution_threads = 1

\* ------------------------------------------------------ message iterator
\* The inference thread pushes while the consumer iterates.
NextIterator ==
    \/ \E kind \in MessageKinds :
           Push(kind)
               /\ UNCHANGED <<rmVars, emVars, saVars, tkVars, rgVars, faVars,
                              cmVars, auVars, loVars>>
    \/ NextDequeue
               /\ UNCHANGED <<rmVars, emVars, saVars, tkVars, rgVars, faVars,
                              cmVars, auVars, loVars>>
    \/ NextReturn
               /\ UNCHANGED <<rmVars, emVars, saVars, tkVars, rgVars, faVars,
                              cmVars, auVars, loVars>>

SpecIterator == Init /\ [][NextIterator]_vars

\* The messages that have left the queue, in the order they left it.
Dequeued == [i \in 1..Len(delivered) |-> delivered[i].message] \o msg

\* C32: the messages taken by Next, followed by those still queued, are the
\* pushed messages in push order (so each is delivered once and in order);
\* Next takes a message only when the queue is not empty; and a call of Next
\* ends the iteration exactly when it throws, which it does with
\* stop_iteration for a Cancelled status and for an empty message.
C32_IteratorFifo ==
    [][ /\ Dequeued' \o queue_' = pushed'
        /\ msg' # msg /\ msg' # <<>> => HasData /\ msg' = <<pushed[Len(Dequeued) + 1]>>
        /\ delivered' # delivered =>
              LET d == delivered'[Len(delivered')]
              IN  /\ d.message.kind \in {"Cancelled", "Empty"}
                      => d.outcome = "stop_iteration" /\ ~iterating'
                  /\ d.message.kind = "Json"
                      => d.outcome = "json" /\ iterating'
      ]_vars

\* Three messages were delivered while a later one was already queued, and
\* the third ended the iteration.
C32_Witness ==
    /\ Len(delivered) = 3
    /\ Len(pushed) = 4
    /\ queue_ # <<>>
    /\ delivered[3].outcome = "stop_iteration"

\* Some other thread is blocked in Acquire of a resource other than b.
OthersBlockedElsewhere(t, b) ==
    \E u \in Threads \ {t} :
        acquiring[u] # NotAcquiring /\ acquiring[u].id # b

\* C33: while other threads are blocked in Acquire of a held resource, a
\* thread that is not itself blocked can carry out Register and Acquire for
\* a different id: neither call has to wait.
C33_NoCrossBlocking ==
    \A t \in Threads, b \in RegIds :
        (acquiring[t] = NotAcquiring /\ OthersBlockedElsewhere(t, b)) =>
            /\ ENABLED Register(t, b, "TestResource", FALSE)
            /\ \A into \in LockVars :
                  ~scoped[into].live =>
                      ENABLED Acquire(t, b, "TestResource", into)

\* The task of T3's session submitted last before T3.
PreviousTask(T3) ==
    LET earlier == {id \in TasksOf(task_lookup_[T3].session) : id < T3}
    IN  IF earlier = {} THEN 0
        ELSE CHOOSE id \in earlier : \A other \in earlier : other <= id

\* C34: let T2 be a prefill or decode task that was submitted while the task
\* T1 it depends on had not ended, and let T1 then have ended Failed or Cancelled. A task T3
\* the session submits next, before T2 has reported anything, declares T2
\* as a dependency.
C34_LaterIdKept ==
    \A T3 \in Submitted :
        LET T2 == PreviousTask(T3)
        IN  (/\ T2 # 0
             /\ task_lookup_[T2].kind \in {"prefill", "decode"}
             /\ ~task_lookup_[T2].under_mutex
             /\ task_lookup_[T2].invoked = 0
             /\ \E T1 \in task_lookup_[T2].deps :
                   task_lookup_[T1].state \in {"Failed", "Cancelled"})
                => T2 \in task_lookup_[T3].deps

\* C35: when the wait of a synchronous RunPrefill is over and the call
\* returns OK, its prefill task has ended Done; for a task that ended in any
\* other end state the call returns a status that is not OK.
C35_PrefillOkOnlyIfDone ==
    [][ (/\ waiting.op = "RunPrefill"
         /\ waiting' = NotWaiting
         /\ returned'.status = "Ok")
            => task_lookup_[waiting.task].state = "Done"
      ]_vars

\* The ids whose text has been returned, in the order of the text.
RECURSIVE EmittedIds(_)
EmittedIds(t) ==
    IF t = <<>> THEN <<>> ELSE Head(t).ids \o EmittedIds(Tail(t))

\* a can be obtained from b by dropping elements, the order kept.
RECURSIVE InOrderOf(_, _)
InOrderOf(a, b) ==
    IF a = <<>> THEN TRUE
    ELSE IF b = <<>> THEN FALSE
    ELSE IF Head(a) = Head(b) THEN InOrderOf(Tail(a), Tail(b))
    ELSE InOrderOf(a, Tail(b))

\* C36: the returned text, read from left to right, is made from the fed
\* ids in the order they were fed: text of an id fed earlier never stands
\* after text of an id fed later.
C36_OrderPreserved ==
    InOrderOf(EmittedIds(text), fed)

\* ------------------------------------------- callbacks of the sync wrappers
\* The callback of task id is invoked in this step.
CallbackInvoked(id) ==
    task_lookup_'[id].invoked > task_lookup_[id].invoked

\* The tasks whose callback writes to the locals of a synchronous wrapper:
\* status of RunPrefill, collected_responses of RunDecode and RunTextScoring.
WritesWrapperLocals(id) ==
    task_lookup_'[id].kind \in {"prefill", "decode", "scoring"}

\* C37: the result-collecting callback of RunPrefill, RunDecode or
\* RunTextScoring is invoked only while that wrapper is still waiting for
\* the task, never after the wrapper has returned.
C37_NoCallbackAfterReturn ==
    [][\A id \in TaskIds :
          CallbackInvoked(id) /\ WritesWrapperLocals(id)
              => waiting'.task = id]_vars

\* ------------------------------------------------------- the audio switch
\* Handlers with and without an audio context are created, cloned and
\* switched while the audio executor encodes.
NextAudio ==
    \/ \E audio \in BOOLEAN :
           CreateWithAudio(audio)
               /\ UNCHANGED <<emVars, saVars, tkVars, rgVars, cmVars, miVars,
                              loVars>>
    \/ \E src \in Handlers :
           CloneWithAudio(src)
               /\ UNCHANGED <<emVars, saVars, tkVars, rgVars, cmVars, miVars,
                              loVars>>
    \/ \E t \in Threads, new \in Handlers :
           AcquireWithAudio(t, new)
               /\ UNCHANGED <<emVars, saVars, tkVars, rgVars, faVars, cmVars,
                              miVars, loVars>>
    \/ \E t \in Threads :
           ReleaseExecutor(t) /\ UNCHANGED <<emVars, auxVars>>
    \/ Encode
           /\ UNCHANGED <<rmVars, emVars, saVars, tkVars, rgVars, faVars,
                          cmVars, miVars, loVars>>

SpecAudio == Init /\ [][NextAudio]_vars

\* The step is a successful switch of the executor to handler new.
SwitchedTo(new) ==
    /\ current_handler_ # new
    /\ current_handler_' = new

NextLora ==
    \/ \E t \in Threads, has_scoped_lora_file \in BOOLEAN :
           CreateContextHandlerBegin(t, has_scoped_lora_file)
               /\ UNCHANGED <<rmVars, emVars, saVars, tkVars, rgVars, faVars,
                              cmVars, miVars, auVars>>
    \/ \E t \in Threads, lora_path \in LoraPaths,
          has_scoped_lora_file \in BOOLEAN :
           AssignLoraIdRead(t, "AssignLoraId", lora_path,
                            has_scoped_lora_file)
               /\ UNCHANGED <<rmVars, emVars, saVars, tkVars, rgVars, faVars,
                              cmVars, miVars, auVars>>
    \/ \E t \in Threads :
           AssignLoraIdWrite(t)
               /\ UNCHANGED <<rmVars, emVars, saVars, tkVars, rgVars, faVars,
                              cmVars, miVars, auVars>>
    \/ \E t \in Threads :
           AssignLoraIdReturn(t)
               /\ UNCHANGED <<rmVars, emVars, saVars, tkVars, rgVars, faVars,
                              cmVars, miVars, auVars>>
    \/ \E t \in Threads :
           CreateContextHandlerEnd(t)
               /\ UNCHANGED <<emVars, saVars, tkVars, rgVars, faVars, cmVars,
                              miVars, auVars>>

SpecLora == Init /\ [][NextLora]_vars

\* The two assignments are for the same LoRA path.
SamePath(a, b) == a.path /\ b.path /\ a.key = b.key

\* C40: the same path is always given the same id, and every new path and
\* every path-less scoped LoRA file is given an id that no other assignment
\* was given, also when the assignments come from several threads.
C40_LoraIdsUnique ==
    \A i, j \in 1..Len(lora_ids) :
        i # j =>
            IF SamePath(lora_ids[i], lora_ids[j])
            THEN lora_ids[i].lora_id = lora_ids[j].lora_id
            ELSE lora_ids[i].lora_id # lora_ids[j].lora_id

\* ---------------------------------------------------- the fresh decision
\* The executor calls of a switch that install the new context.
InstallCalls(calls) == SelectSeq(calls, LAMBDA c : c.fn # "CloneContext")

\* C39: a successful switch to a handler B on another ProcessedContext than
\* the active one creates a new empty context (CreateNewContext, then
\* RestoreContext, then UpdateRuntimeState) exactly when B's context has no
\* tokens, B's clamped step is 0 and B has not run decode; in every other
\* case B's own ProcessedContext, runtime config and runtime state are
\* restored into the executor.
C39_FreshDecision ==
    [][\A t \in Threads, B \in Handlers :
          (/\ AcquireExecutorWithContextHandler(t, B)
           /\ lastOp'.ok
           /\ ~SameHandler(B)
           /\ ~SharedContextSwitch(B)) =>
              LET st == handler[B].st[1]
                  cell == spcInner[handler[B].spc]
                  tokens == IF cell = <<>> THEN <<>> ELSE cell[1]
                  step == Max2(0, Min2(st.current_step, Len(tokens)))
                  calls == InstallCalls(lastOp'.calls)
              IN  IF Len(tokens) = 0 /\ step = 0 /\ ~st.ran_decode
                  THEN /\ calls = <<Call("CreateNewContext", <<>>, 0),
                                    Call("RestoreContext", <<>>, 0),
                                    Call("UpdateRuntimeState", <<>>, 0)>>
                       /\ ex'.tokens = <<>>
                       /\ ex'.cfg = handler[B].cfg[1]
                       /\ ex'.step = 0
                       /\ ~ex'.ran
                  ELSE /\ calls = <<Call("RestoreContext", <<>>, step)>>
                       /\ ex'.tokens = tokens
                       /\ ex'.cfg = handler[B].cfg[1]
                       /\ ex'.step = step
                       /\ ex'.ran = st.ran_decode]_vars

\* Handler 2, which had never held anything, has been installed as a new
\* empty context while handler 1's non-empty context was saved.
C39_Witness ==
    /\ current_handler_ = 2
    /\ lastOp.op = "Acquire"
    /\ lastOp.ok
    /\ lastOp.calls = <<Call("CloneContext", <<>>, -1),
                        Call("CreateNewContext", <<>>, 0),
                        Call("RestoreContext", <<>>, 0),
                        Call("UpdateRuntimeState", <<>>, 0)>>
    /\ ex.tokens = <<>>
    /\ handler[2].spc # handler[1].spc
    /\ spcInner[handler[1].spc] # <<>>
    /\ spcInner[handler[1].spc][1] # <<>>

====
